---------------------------- MODULE Spec2Model ----------------------------
(***************************************************************************)
(* A model of the capture-to-codec pipeline of mycrl/mirror.               *)
(*                                                                         *)
(*   capture  : src/capture/lib/capture.cpp (the process-wide GLOBAL, the  *)
(*              compositor's raw callbacks, the camera frame_loop thread)  *)
(*   codec    : src/codec/lib/h264.cpp, src/codec/lib/codec.cpp (one video *)
(*              encoder or decoder session)                                *)
(*                                                                         *)
(* Pointers are modelled by what the code can tell about them: "null",     *)
(* "live", or "freed" (released but still stored).  Objects of the media   *)
(* foundation are identified by the set_input call that created them.      *)
(***************************************************************************)
EXTENDS Integers, Sequences, FiniteSets, TLC

\* ------------------------------------------------------------------ bounds
\* how many times set_input(camera) is attempted in one run
MaxSetInput == 2
\* how many cameras the platform enumeration can report
MaxDevices == 1
\* how many sink registrations SpecSink records
MaxCbCalls == 3
\* the number of distinct non-null sink contexts a caller passes
MaxCtx == 2
\* access units in the bitstream given to a decoder session
MaxAUs == 3
\* bytes of one access unit
MaxAuLen == 2
\* the sizes (width x height) of the frames an engine gives out, 1..MaxFrameSize
MaxFrameSize == 2
\* entries of the list a backend gives to one enumeration
MaxItems == 2
\* bytes of the largest buffer handed to one send_packet call
MaxChunk == 3
\* packets the encoding engine holds ready
MaxQueue == 2
\* read_packet results recorded for one encoder session
MaxReads == 3
\* codec_find_video_encoder / codec_find_video_decoder calls recorded in one run
MaxFinds == 3
\* half of the largest width and height of a decoded frame that is converted
MaxHalfDim == 2
\* bytes of padding at the end of each row of a decoded frame
MaxPad == 1
\* the first pixel value of the synthetic frames, 0..MaxSeed
MaxSeed == 7
\* StartCapture calls on one capture object
MaxStarts == 3
\* get_devices calls on one CaptureService
MaxGets == 2
\* sender and receiver handles one MirrorService creates
MaxHandles == 4
\* Close() calls nested in one another through the close callback
MaxDepth == 3
\* send_frame calls on one video_encoder.c session
MaxOffers == 5
\* handles one HylaranaService is given by the library
MaxHyl == 4

VARIABLES
    \* ---- capture.cpp: GLOBAL and the engine behind it
    obs_up,            \* obs_initialized()
    rawcb,             \* raw_video_callback registered with the compositor
    scene,             \* GLOBAL.scene
    window_source,     \* GLOBAL.window_source
    monitor_source,    \* GLOBAL.monitor_source
    audio_source,      \* GLOBAL.audio_source
    visible,           \* visibility of the monitor and the window scene item
    output_callback,   \* GLOBAL.output_callback
    cam,               \* GLOBAL.camera
    mf_live,           \* media-foundation objects created and not released
    threads,           \* one frame_loop thread per successful set_camera
    comp_pc,           \* the compositor's video thread
    delivered,         \* backends that reached the sink since the last set_input
    si_n,              \* number of set_input(camera) attempts so far
    ret,               \* the last call of the capture API and what it returned
    cb_log,            \* the registrations made, each with what it returned
    ub                 \* undefined behaviour that has happened

VARIABLES
    \* ---- h264.cpp: one video encoder or decoder session and the engine behind it
    direction,         \* "Encode" or "Decode": the kind of session of this run
    codec,             \* the VideoEncoder / VideoDecoder struct
    stream,            \* the bitstream for the decoder: the length of each access unit
    sent,              \* bytes of the stream handed to send_packet so far
    cut,               \* a buffer boundary fell inside an access unit
    call,              \* the send_packet call in progress: its loop position
    pars,              \* bytes of the stream the parser has consumed
    pkt_size,          \* codec->packet->size: the access unit the parser gave out, or 0
    submitted,         \* the access units given to avcodec_send_packet, in order
    engine,            \* what the engine holds ready (decoded frames, encoded packets)
    frames_read,       \* successful read_frame calls
    failed,            \* a send_packet call returned false
    enc_out,           \* the non-null results of read_packet, in order
    rel_log,           \* the release calls of the session's destruction, in order
    codec_ret          \* the last call of the codec API and what it returned; for
                       \* send_packet also the buffer and whether its length was > 0

VARIABLES
    \* ---- results handed back to the caller, kept for the properties
    enum_ret,          \* the last capture_get_device_list call: its inputs and its result
    create_in,         \* the last create call of the codec API: the codec asked for
                       \* and the first call inside it that failed
    \* ---- codec.cpp: the search for a video codec
    hw_avail,          \* the device types av_hwdevice_ctx_create succeeds for on this host
    find_log           \* the codec_find_video_* calls made, each with the name returned

findVars == << hw_avail, find_log >>

VARIABLES
    \* ---- h264.cpp: the conversion of one decoded frame, pixel by pixel
    src_frame,         \* the planar 4:2:0 frame the engine gave out (AVFrame)
    nv12,              \* the session's output frame after I420ToNV12
    back               \* the planar frame read back from the output frame

bridgeVars == << src_frame, nv12, back >>

VARIABLES
    \* ---- desktop.cpp: one GDICapture object and the worker threads it has started
    gdi,               \* _is_runing, _frame.data[0] (0 for nullptr, else the number of
                       \* the allocation) and whether the object has been destroyed
    workers,           \* per StartCapture call: where its thread is and the buffer it
                       \* handed to the callback
    stopped            \* the workers that were running when StopCapture was called

gdiVars == << gdi, workers, stopped >>

VARIABLES
    \* ---- napi/src/capture.cpp: one CaptureService and the script that uses it
    svc_devices,       \* _devices: nullopt, or the list the last get_devices stored
    gets,              \* the get_devices calls made
    objects,           \* the device objects the script was given, each with the call
                       \* and the kind it came from and its "index" property
    applied            \* the last set_input_device: the object passed, how the call
                       \* ended and the device handed to mirror_set_input_device

svcVars == << svc_devices, gets, objects, applied >>

VARIABLES
    \* ---- examples/desktop/src/main.cpp: one MirrorService
    msvc,              \* _is_runing, _sender and _receiver (0 for nullptr, else the
                       \* number of the handle), and the nested Close() calls that
                       \* have returned
    handles_made,      \* the handles created so far
    destroys,          \* per handle: the mirror_*_destroy calls made on it
    stack              \* the Close() calls in progress, innermost last, each with
                       \* the statement it is at

msVars == << msvc, handles_made, destroys, stack >>

VARIABLES
    \* ---- video_encoder.c: one VideoEncoder session
    venc,              \* whether it is open, settings->frame_rate and frame_num
    offered            \* per send_frame call that reached avcodec_send_frame: the
                       \* pts on the frame and whether the engine took it

vencVars == << venc, offered >>

VARIABLES
    \* ---- examples/cpp/src/main.cpp: one HylaranaService
    hyl,               \* _is_runing, _discovery, _receiver and _sender (0 for nullptr,
                       \* else the number of the handle) and the last call made
    hlive,             \* the handles the library has created and not destroyed
    hquery,            \* the handles that hylarana_discovery_query returned
    hlost,             \* the live handles whose only pointer was overwritten
    hmade              \* the handles created so far

hylVars == << hyl, hlive, hquery, hlost, hmade >>

extVars == << msVars, vencVars, hylVars >>

auxVars == << enum_ret, create_in, findVars, bridgeVars, gdiVars, svcVars, extVars >>

codecVars == << direction, codec, stream, sent, cut, call, pars, pkt_size, submitted,
                engine, frames_read, failed, enc_out, rel_log, codec_ret >>

obsVars == << obs_up, rawcb, scene, window_source, monitor_source, audio_source, visible >>

captureVars == << obsVars, output_callback, cam, mf_live, threads, comp_pc,
                  delivered, si_n, ret, cb_log, ub >>

vars == << captureVars, codecVars, auxVars >>

\* ------------------------------------------------------------- capture.cpp
DeviceTypes == { "Video", "Audio", "Screen", "Window" }

CamInit == [ attributes |-> "null", devices |-> "null", devices_size |-> 0,
             source |-> 0, reader |-> 0, kind |-> 0, is_runing |-> FALSE ]

NullProc == [ video |-> FALSE, ctx |-> 0 ]

\* the sinks a caller registers: a video callback or none, with any context
Procs == { [ video |-> v, ctx |-> c ] : v \in BOOLEAN, c \in 0..MaxCtx }

\* the two registrations the capture threads can tell apart
CaptureProcs == { NullProc, [ video |-> TRUE, ctx |-> 1 ] }

CaptureInit ==
    /\ obs_up = FALSE
    /\ rawcb = FALSE
    /\ scene = "null"
    /\ window_source = "null"
    /\ monitor_source = "null"
    /\ audio_source = "null"
    /\ visible = [ monitor |-> FALSE, window |-> FALSE ]
    /\ output_callback = NullProc
    /\ cam = CamInit
    /\ mf_live = {}
    /\ threads = [ t \in 1..MaxSetInput |-> "none" ]
    /\ comp_pc = "idle"
    /\ delivered = {}
    /\ si_n = 0
    /\ ret = << "none", 0 >>
    /\ cb_log = << >>
    /\ ub = {}

\* the process goes on only while its behaviour is defined
Defined == ub = {}

\* capture.cpp:419-424: the ctx handed back is the one stored before the assignment
MutPreviousCtx(cur, proc) == proc.ctx

PreviousCtx(cur, proc) == cur.ctx

capture_set_output_callback(proc) ==
    /\ ret' = << "set_output_callback", PreviousCtx(output_callback, proc) >>
    /\ output_callback' = proc

\* a registration made while capture runs
SetOutputCallback(proc) ==
    /\ Defined
    /\ UNCHANGED << codecVars, auxVars >>
    /\ capture_set_output_callback(proc)
    /\ UNCHANGED << obsVars, cam, mf_live, threads, comp_pc, delivered, si_n, cb_log, ub >>

\* the same registration, recorded with what it returned
SetOutputCallbackLogged(proc) ==
    /\ Defined
    /\ UNCHANGED << codecVars, auxVars >>
    /\ Len(cb_log) < MaxCbCalls
    /\ capture_set_output_callback(proc)
    /\ cb_log' = Append(cb_log, [ ctx |-> proc.ctx, ret |-> ret'[2] ])
    /\ UNCHANGED << obsVars, cam, mf_live, threads, comp_pc, delivered, si_n, ub >>

\* capture_start's early returns, in the order of the code
StartFails == { 0, -2, -3, -4, -5, -6, -7, -8, -9, -12 }

\* capture_start ends without a return statement: the value is whatever the build leaves
UndefinedRets == { 0, -1 }

\* what one capture_start call meets: where it fails, whether the camera attributes
\* could be created, and the value left behind by the missing return
StartInputs ==
    { << fail, TRUE, 0 >> : fail \in StartFails \ { 0 } }
        \cup { << 0, camok, r >> : camok \in BOOLEAN, r \in UndefinedRets }

\* the step a failure code stands for, 10 for no failure
StartStep(fail) ==
    CASE fail = -2 -> 1 [] fail = -3 -> 2 [] fail = -4 -> 3 [] fail = -5 -> 4
      [] fail = -6 -> 5 [] fail = -7 -> 6 [] fail = -8 -> 7 [] fail = -9 -> 8
      [] fail = -12 -> 9 [] OTHER -> 10

\* a pointer assigned by the creation call at step `at`
Created(old, at, step) ==
    IF step > at THEN "live" ELSE IF step = at THEN "null" ELSE old

\* capture.cpp:170-192: the attributes object exists when the first two calls succeed
init_camera(camok) ==
    cam' = [ cam EXCEPT !.attributes = IF camok THEN "live" ELSE @ ]

MutCaptureStart(fail, camok, r) ==
    LET step == StartStep(fail) IN
    /\ obs_up' = (step > 1)
    /\ scene' = Created(scene, 4, step)
    /\ window_source' = Created(window_source, 5, step)
    /\ monitor_source' = Created(monitor_source, 7, step)
    /\ audio_source' = Created(audio_source, 9, step)
    /\ visible' = [ monitor |-> IF step > 8 THEN TRUE ELSE visible.monitor,
                    window |-> IF step > 6 THEN TRUE ELSE visible.window ]
    /\ rawcb' = (step = 10)
    /\ IF step = 10 THEN init_camera(camok) ELSE cam' = cam
    /\ ret' = << "start", IF step = 10 THEN r ELSE fail >>

\* capture.cpp:452-553
capture_start(fail, camok, r) ==
    IF obs_up
    THEN /\ ret' = << "start", -1 >>
         /\ UNCHANGED << obsVars, cam >>
    ELSE LET step == StartStep(fail) IN
         /\ obs_up' = (step > 1)
         /\ scene' = Created(scene, 4, step)
         /\ window_source' = Created(window_source, 5, step)
         /\ monitor_source' = Created(monitor_source, 7, step)
         /\ audio_source' = Created(audio_source, 9, step)
         /\ visible' = [ monitor |-> IF step > 8 THEN TRUE ELSE visible.monitor,
                         window |-> IF step > 6 THEN TRUE ELSE visible.window ]
         /\ rawcb' = (step = 10)
         /\ IF step = 10 THEN init_camera(camok) ELSE cam' = cam
         /\ ret' = << "start", IF step = 10 THEN r ELSE fail >>

CaptureStart(fail, camok, r) ==
    /\ Defined
    /\ UNCHANGED << codecVars, auxVars >>
    /\ capture_start(fail, camok, r)
    /\ UNCHANGED << output_callback, mf_live, threads, comp_pc, delivered, si_n, cb_log, ub >>

\* obs_source_release / obs_scene_release of a stored pointer
Released(p) == IF p = "null" THEN "null" ELSE "freed"

CamObjects(c) ==
    { << "kind", c.kind >>, << "reader", c.reader >>, << "source", c.source >> }

\* capture.cpp:379-414
stop_camera ==
    /\ cam' = [ cam EXCEPT !.is_runing = FALSE, !.kind = 0, !.reader = 0,
                           !.source = 0, !.attributes = "null", !.devices = "null" ]
    /\ mf_live' = mf_live \ CamObjects(cam)
    /\ ub' = ub \cup (IF cam.devices_size > 0 /\ cam.devices # "live"
                      THEN { "devices_deref" } ELSE {})
                \cup (IF "freed" \in { scene, window_source, monitor_source, audio_source }
                      THEN { "double_release" } ELSE {})

\* capture.cpp:555-590; the engine's shutdown joins its video thread
capture_stop ==
    IF ~ obs_up
    THEN UNCHANGED << obsVars, cam, mf_live, ub >>
    ELSE /\ rawcb' = FALSE
         /\ monitor_source' = Released(monitor_source)
         /\ window_source' = Released(window_source)
         /\ audio_source' = Released(audio_source)
         /\ scene' = Released(scene)
         /\ visible' = [ monitor |-> FALSE, window |-> FALSE ]
         /\ obs_up' = FALSE
         /\ stop_camera

CaptureStop ==
    /\ Defined
    /\ UNCHANGED << codecVars, auxVars >>
    /\ comp_pc = "idle"
    /\ capture_stop
    /\ ret' = << "stop", 0 >>
    /\ UNCHANGED << output_callback, threads, comp_pc, delivered, si_n, cb_log >>

\* capture.cpp:194-207: the platform reports n cameras, or the call fails; it
\* fails without the attribute store that init_camera creates
enum_camera(n, ok) ==
    /\ ok => cam.attributes = "live"
    /\ cam' = [ cam EXCEPT !.devices_size = IF ok THEN n ELSE 0,
                           !.devices = IF ok THEN "live" ELSE @ ]
    /\ ret' = << "get_device_list", IF ok /\ n > 0 THEN 0 ELSE -1 >>

EnumCamera(n, ok) ==
    /\ Defined
    /\ UNCHANGED << codecVars, auxVars >>
    /\ enum_camera(n, ok)
    /\ UNCHANGED << obsVars, output_callback, mf_live, threads, comp_pc, delivered,
                    si_n, cb_log, ub >>

\* set_camera's early returns: 0 for none, k for "return -k"
CameraFails == 0..8

\* the objects set_camera has created when it returns with `fail`
CameraCreated(fail) ==
    IF fail = 0 THEN { "source", "reader", "kind" }
    ELSE IF fail = 1 THEN {}
    ELSE IF fail = 2 THEN { "source" }
    ELSE IF fail = 3 THEN { "source", "reader" }
    ELSE { "source", "reader", "kind" }

\* capture.cpp:315-377: every object is stored over the previous one, nothing is released
set_camera(n, fail) ==
    LET made == CameraCreated(fail) IN
    /\ cam' = [ cam EXCEPT !.source = IF "source" \in made THEN n ELSE @,
                           !.reader = IF "reader" \in made THEN n ELSE @,
                           !.kind = IF "kind" \in made THEN n ELSE @,
                           !.is_runing = IF fail = 0 THEN TRUE ELSE @ ]
    /\ mf_live' = mf_live \cup { << k, n >> : k \in made }
    /\ threads' = IF fail = 0 THEN [ threads EXCEPT ![n] = "check" ] ELSE threads
    /\ ret' = << "set_input", - fail >>

\* the settings update that shows the selected item and leaves its sibling as it was
MutUpdateSettings(type) ==
    /\ visible' = IF type = "Screen" THEN [ visible EXCEPT !.monitor = TRUE ]
                  ELSE IF type = "Window" THEN [ visible EXCEPT !.window = TRUE ]
                  ELSE visible
    /\ ret' = << "set_input", 0 >>

\* capture.cpp:84-135: the selected item is shown and its sibling hidden
update_settings(type) ==
    /\ visible' = IF type = "Screen" THEN [ monitor |-> TRUE, window |-> FALSE ]
                  ELSE IF type = "Window" THEN [ monitor |-> FALSE, window |-> TRUE ]
                  ELSE visible
    /\ ret' = << "set_input", 0 >>

\* capture.cpp:592-612
capture_set_video_input(type, index, fail) ==
    IF type = "Video"
    THEN /\ cam.devices = "live"
         /\ index < cam.devices_size
         /\ si_n < MaxSetInput
         /\ si_n' = si_n + 1
         /\ set_camera(si_n + 1, fail)
         /\ UNCHANGED visible
    ELSE /\ obs_up
         /\ rawcb
         /\ fail = 0
         /\ index = 0
         /\ update_settings(type)
         /\ UNCHANGED << cam, mf_live, threads, si_n >>

SetInput(type, index, fail) ==
    /\ Defined
    /\ UNCHANGED << codecVars, auxVars >>
    /\ capture_set_video_input(type, index, fail)
    /\ delivered' = {}
    /\ UNCHANGED << obs_up, rawcb, scene, window_source, monitor_source, audio_source,
                    output_callback, comp_pc, cb_log, ub >>

MutLoopCondition == cam.is_runing /\ cam.reader # 0

\* capture.cpp:261-263: the loop condition of frame_loop
LoopCondition == cam.is_runing /\ cam.reader # 0 /\ output_callback.video

FrameLoopCheck(t) ==
    /\ Defined
    /\ UNCHANGED << codecVars, auxVars >>
    /\ threads[t] = "check"
    /\ threads' = [ threads EXCEPT ![t] = IF LoopCondition THEN "read" ELSE "done" ]
    /\ UNCHANGED << obsVars, output_callback, cam, mf_live, comp_pc, delivered, si_n,
                    ret, cb_log, ub >>

\* capture.h:65-70: the callbacks a sink registers with capture_set_output_callback
SinkCallbacks == { "video", "audio" }

\* capture.cpp:312-313: what frame_loop calls on the sink between its loop and its return
FrameLoopExitCalls == {}

\* capture.cpp:284, 292, 306: a failed call breaks out of the loop and frame_loop
\* returns; "closing" is the state of a thread that is calling the sink's close
FrameLoopBreak == IF "close" \in FrameLoopExitCalls \cap SinkCallbacks THEN "closing" ELSE "failed"

\* what one pass of the loop body meets before the sink is called
ReadOutcomes == { "nosample", "fail", "frame" }

\* capture.cpp:265-293: read a sample through GLOBAL.camera.reader and lock its buffer;
\* from here to the sink call the thread works on its local sample and buffer
FrameLoopRead(t, outcome) ==
    /\ Defined
    /\ UNCHANGED << codecVars, auxVars >>
    /\ threads[t] = "read"
    /\ IF cam.reader = 0
       THEN /\ ub' = ub \cup { "reader_null" }
            /\ threads' = [ threads EXCEPT ![t] = "done" ]
       ELSE /\ threads' = [ threads EXCEPT ![t] = IF outcome = "frame" THEN "locked"
                                                 ELSE IF outcome = "fail"
                                                 THEN FrameLoopBreak
                                                 ELSE "check" ]
            /\ UNCHANGED ub
    /\ UNCHANGED << obsVars, output_callback, cam, mf_live, comp_pc, delivered, si_n,
                    ret, cb_log >>

\* capture.cpp:295-301: the sink is called through the pointer as it is now
FrameLoopCall(t) ==
    /\ Defined
    /\ UNCHANGED << codecVars, auxVars >>
    /\ threads[t] = "locked"
    /\ IF output_callback.video
       THEN /\ threads' = [ threads EXCEPT ![t] = "sink" ]
            /\ delivered' = delivered \cup { "camera" }
            /\ UNCHANGED ub
       ELSE /\ ub' = ub \cup { "null_call" }
            /\ threads' = [ threads EXCEPT ![t] = "done" ]
            /\ UNCHANGED delivered
    /\ UNCHANGED << obsVars, output_callback, cam, mf_live, comp_pc, si_n, ret, cb_log >>

\* capture.cpp:303-312: the sink returned; the loop ends when Unlock fails
FrameLoopReturn(t, ok) ==
    /\ Defined
    /\ UNCHANGED << codecVars, auxVars >>
    /\ threads[t] = "sink"
    /\ threads' = [ threads EXCEPT ![t] = IF ok THEN "check" ELSE FrameLoopBreak ]
    /\ UNCHANGED << obsVars, output_callback, cam, mf_live, comp_pc, delivered, si_n,
                    ret, cb_log, ub >>

\* capture.cpp:141-146: the compositor's frame is dropped without a registered sink
RawVideoCheck ==
    /\ Defined
    /\ UNCHANGED << codecVars, auxVars >>
    /\ comp_pc = "idle"
    /\ obs_up
    /\ rawcb
    /\ comp_pc' = IF output_callback.video /\ output_callback.ctx # 0
                  THEN "checked" ELSE "idle"
    /\ UNCHANGED << obsVars, output_callback, cam, mf_live, threads, delivered, si_n,
                    ret, cb_log, ub >>

\* capture.cpp:148-152: the sink is called through the pointer as it is now
RawVideoCall ==
    /\ Defined
    /\ UNCHANGED << codecVars, auxVars >>
    /\ comp_pc = "checked"
    /\ IF output_callback.video
       THEN /\ comp_pc' = "sink"
            /\ delivered' = delivered \cup { "compositor" }
            /\ UNCHANGED ub
       ELSE /\ comp_pc' = "idle"
            /\ ub' = ub \cup { "null_call" }
            /\ UNCHANGED delivered
    /\ UNCHANGED << obsVars, output_callback, cam, mf_live, threads, si_n, ret, cb_log >>

RawVideoReturn ==
    /\ Defined
    /\ UNCHANGED << codecVars, auxVars >>
    /\ comp_pc = "sink"
    /\ comp_pc' = "idle"
    /\ UNCHANGED << obsVars, output_callback, cam, mf_live, threads, delivered, si_n,
                    ret, cb_log, ub >>

\* the producers that are inside the sink callback (0 is the compositor)
InSink ==
    { t \in 1..MaxSetInput : threads[t] = "sink" }
        \cup (IF comp_pc = "sink" THEN { 0 } ELSE {})

\* the frame_loop threads that have been started and have not returned
LiveThreads ==
    { t \in 1..MaxSetInput : threads[t] \in { "check", "read", "locked", "sink" } }

\* the backends that can put a frame into the dispatcher
ActiveBackends ==
    (IF obs_up /\ rawcb THEN { "compositor" } ELSE {})
        \cup (IF LiveThreads # {} THEN { "camera" } ELSE {})

(***************************************************************************)
(* capture_get_device_list: the list handed back to the caller.  The       *)
(* backend's list is an input: "dev" is a device, "default" the default    *)
(* audio device, "noname" a camera whose name cannot be read, "nomem" a    *)
(* camera for whose name no memory is left.                                *)
(***************************************************************************)

\* what the compositor lists for a source
ObsItems == { "dev", "default" }

\* what the platform lists for cameras
CameraItems == { "dev", "noname", "nomem" }

BackendLists(kinds) == UNION { [ 1..n -> kinds ] : n \in 0..MaxItems }

RECURSIVE MutObsList(_, _, _, _)
MutObsList(type, items, i, list) ==
    IF i >= Len(items) THEN list
    ELSE IF type = "Audio" /\ items[i + 1] = "default"
    THEN MutObsList(type, items, i + 1, list)
    ELSE MutObsList(type, items, i + 1,
                    Append(list, [ type |-> type, index |-> Len(list) ]))

RECURSIVE ObsList(_, _, _, _)
\* capture.cpp:648-665: the loop over the items of the property, from item i
ObsList(type, items, i, list) ==
    IF i >= Len(items) THEN list
    ELSE IF type = "Audio" /\ items[i + 1] = "default"
    THEN ObsList(type, items, i + 1, list)
    ELSE ObsList(type, items, i + 1, Append(list, [ type |-> type, index |-> i ]))

RECURSIVE CameraList(_, _, _)
\* capture.cpp:209-254: the loop over GLOBAL.camera.devices, from device i
CameraList(items, i, list) ==
    IF i >= Len(items) THEN list
    ELSE IF items[i + 1] = "noname" THEN list
    ELSE IF items[i + 1] = "nomem" THEN CameraList(items, i + 1, list)
    ELSE CameraList(items, i + 1, Append(list, [ type |-> "Video", index |-> i ]))

\* the source capture_get_device_list reads the properties of
SourceOf(type) ==
    IF type = "Screen" THEN monitor_source
    ELSE IF type = "Audio" THEN audio_source
    ELSE window_source

\* capture.cpp:614-673; ok is MFEnumDeviceSources succeeding
capture_get_device_list(type, items, ok) ==
    IF type = "Video"
    THEN /\ items \in BackendLists(CameraItems)
         /\ enum_camera(Len(items), ok)
         /\ enum_ret' = [ type |-> type, ok |-> ok, items |-> items,
                          status |-> ret'[2],
                          list |-> IF ret'[2] = 0 THEN CameraList(items, 0, << >>)
                                                  ELSE << >> ]
    ELSE /\ items \in BackendLists(ObsItems)
         /\ ok
         /\ obs_up
         /\ SourceOf(type) = "live"
         /\ cam' = cam
         /\ ret' = << "get_device_list", 0 >>
         /\ enum_ret' = [ type |-> type, ok |-> ok, items |-> items, status |-> 0,
                          list |-> ObsList(type, items, 0, << >>) ]

GetDeviceList(type, items, ok) ==
    /\ Defined
    /\ UNCHANGED codecVars
    /\ capture_get_device_list(type, items, ok)
    /\ UNCHANGED << create_in, findVars, bridgeVars, gdiVars, svcVars, extVars >>
    /\ UNCHANGED << obsVars, output_callback, mf_live, threads, comp_pc, delivered,
                    si_n, cb_log, ub >>

(***************************************************************************)
(* codec/lib/h264.cpp and codec/lib/codec.cpp (the WIN32 build): one video *)
(* encoder or decoder session.  The engine (libavcodec) is the             *)
(* environment: whether its calls succeed, what the parser consumes and    *)
(* what the engine gives out are inputs.                                   *)
(***************************************************************************)

\* BufferFlag::Config, the literal written by codec_video_encoder_read_packet
ConfigFlag == 2

\* AVPacket.flags of an encoded packet: 0 none, 1 AV_PKT_FLAG_KEY, 2 AV_PKT_FLAG_CORRUPT
EngineFlags == { 0, 1, 2 }

EncoderNames == { "h264_qsv", "h264_nvenc", "libx264" }

\* h264_cuvid takes the path of h264 through create_video_context and read_frame
DecoderNames == { "d3d11va", "h264_qsv", "h264" }

\* the audio decoder of audio_decode.cpp is created by this codec name
AudioDecoderNames == { "libopus" }

\* "ctx": create_video_context finds no codec or no memory; "hw": it cannot set up
\* the GPU device or frame pool
EncoderFails == { "none", "ctx", "hw", "open", "is_open", "packet", "frame" }

DecoderFails == { "none", "ctx", "hw", "open", "is_open", "parser", "packet" }

AudioDecoderFails == { "none", "find", "alloc", "open", "is_open", "parser", "packet", "frame" }

NoCodec ==
    [ state |-> "none", name |-> "none", context |-> FALSE,
      hw_device_ctx |-> FALSE, hw_frames_ctx |-> FALSE,
      parser |-> FALSE, packet |-> FALSE, frame |-> "null",
      out_data |-> "null", output_frame |-> FALSE, output_packet |-> FALSE,
      out_pkt |-> [ flags |-> 0, src |-> "none" ], initialized |-> FALSE,
      frame_size |-> 0, out_size |-> 0,
      pkt_ref |-> FALSE, frame_data |-> "blank" ]

\* no send_packet call in progress; `odd` is the parity of the passes of the parse loop
\* in which the parser consumed nothing
NoCall == [ pc |-> "idle", size |-> 0, odd |-> FALSE ]

Streams == UNION { [ 1..n -> 1..MaxAuLen ] : n \in 1..MaxAUs }

CodecIdle ==
    /\ direction = "None"
    /\ codec = NoCodec
    /\ stream = << >>
    /\ sent = 0
    /\ cut = FALSE
    /\ call = NoCall
    /\ pars = 0
    /\ pkt_size = 0
    /\ submitted = << >>
    /\ engine = << >>
    /\ frames_read = 0
    /\ failed = FALSE
    /\ enc_out = << >>
    /\ rel_log = << >>
    /\ codec_ret = << "none" >>

CodecInit ==
    /\ direction \in { "Encode", "Decode" }
    /\ stream \in IF direction = "Decode" THEN Streams ELSE { << >> }
    /\ codec = NoCodec
    /\ sent = 0
    /\ cut = FALSE
    /\ call = NoCall
    /\ pars = 0
    /\ pkt_size = 0
    /\ submitted = << >>
    /\ engine = << >>
    /\ frames_read = 0
    /\ failed = FALSE
    /\ enc_out = << >>
    /\ rel_log = << >>
    /\ codec_ret = << "none" >>

\* create_video_context: the hardware references it leaves on the codec context
HwDevice(kind, name) == name \in { "d3d11va", "h264_qsv" }

HwFrames(kind, name) == name = "h264_qsv" /\ kind = "Encode"

Opt(present, what) == IF present THEN << what >> ELSE << >>

MutEncoderReleaseSeq(s) ==
    Opt(s.context, "context")
        \o Opt(s.hw_device_ctx, "hw_device_ctx")
        \o Opt(s.hw_frames_ctx, "hw_frames_ctx")
        \o Opt(s.packet, "packet")
        \o Opt(s.frame # "null", "frame")
        \o << "output_packet", "session" >>

\* codec_release_video_encoder: the release calls it makes, in order
EncoderReleaseSeq(s) ==
    Opt(s.hw_device_ctx, "hw_device_ctx")
        \o Opt(s.hw_frames_ctx, "hw_frames_ctx")
        \o Opt(s.context, "context")
        \o Opt(s.packet, "packet")
        \o Opt(s.frame # "null", "frame")
        \o << "output_packet", "session" >>

MutDecoderReleaseSeq(s) ==
    Opt(s.hw_device_ctx, "hw_device_ctx")
        \o Opt(s.hw_frames_ctx, "hw_frames_ctx")
        \o Opt(s.parser, "parser")
        \o Opt(s.packet, "packet")
        \o Opt(s.context, "context")
        \o Opt(s.frame # "null" /\ s.frame = "yuv420p" /\ s.out_data # "null", "out_data")
        \o Opt(s.frame # "null", "frame")
        \o << "output_frame", "session" >>

\* codec_release_video_decoder: the release calls it makes, in order
DecoderReleaseSeq(s) ==
    Opt(s.hw_device_ctx, "hw_device_ctx")
        \o Opt(s.hw_frames_ctx, "hw_frames_ctx")
        \o Opt(s.context, "context")
        \o Opt(s.parser, "parser")
        \o Opt(s.packet, "packet")
        \o Opt(s.frame # "null" /\ s.frame = "yuv420p" /\ s.out_data # "null", "out_data")
        \o Opt(s.frame # "null", "frame")
        \o << "output_frame", "session" >>

Gone(s, st) ==
    [ s EXCEPT !.state = st, !.context = FALSE, !.hw_device_ctx = FALSE,
               !.hw_frames_ctx = FALSE, !.parser = FALSE, !.packet = FALSE,
               !.frame = "null", !.out_data = "null", !.output_frame = FALSE,
               !.output_packet = FALSE, !.frame_size = 0, !.out_size = 0,
               !.pkt_ref = FALSE, !.frame_data = "blank" ]

\* codec_create_video_encoder; fail names the first call of it that fails
codec_create_video_encoder(name, fail) ==
    LET made == [ NoCodec EXCEPT
                    !.name = name,
                    !.context = TRUE,
                    !.hw_device_ctx = HwDevice("Encode", name),
                    !.hw_frames_ctx = HwFrames("Encode", name),
                    !.packet = fail \in { "frame", "none" },
                    !.frame = IF fail = "none" THEN "buffer" ELSE "null",
                    !.output_packet = TRUE ]
    IN  IF fail \in { "ctx", "hw" }
        THEN /\ codec' = [ NoCodec EXCEPT !.state = "failed", !.name = name,
                                          !.output_packet = TRUE ]
             /\ rel_log' = rel_log
        ELSE IF fail # "none"
        THEN /\ codec' = Gone(made, "failed")
             /\ rel_log' = EncoderReleaseSeq(made)
        ELSE /\ codec' = [ made EXCEPT !.state = "live" ]
             /\ rel_log' = rel_log

EncCreate(name, fail) ==
    /\ direction = "Encode"
    /\ codec.state = "none"
    /\ fail = "hw" => HwDevice("Encode", name)
    /\ codec_create_video_encoder(name, fail)
    /\ codec_ret' = << "create", IF fail = "none" THEN "session" ELSE "null" >>
    /\ create_in' = [ name |-> name, fail |-> fail ]
    /\ UNCHANGED << direction, stream, sent, cut, call, pars, pkt_size, submitted,
                    engine, frames_read, failed, enc_out >>
    /\ UNCHANGED << captureVars, enum_ret, findVars, bridgeVars, gdiVars, svcVars, extVars >>

\* codec_video_encoder_send_frame: ok is the engine accepting the frame, out the
\* packets the engine makes ready for it
EncSendFrame(ok, out) ==
    /\ direction = "Encode"
    /\ codec.state = "live"
    /\ Len(engine) + Len(out) <= MaxQueue
    /\ IF ~codec.context
       THEN /\ codec_ret' = << "send_frame", "false" >>
            /\ engine' = engine
       ELSE IF ~ok
       THEN /\ codec_ret' = << "send_frame", "false" >>
            /\ engine' = engine
       ELSE /\ codec_ret' = << "send_frame", "true" >>
            /\ engine' = engine \o out
    /\ UNCHANGED << direction, codec, stream, sent, cut, call, pars, pkt_size,
                    submitted, frames_read, failed, enc_out, rel_log >>
    /\ UNCHANGED << captureVars, auxVars >>

MutIsFirstRead(s) == FALSE

\* codec_video_encoder_read_packet: the test of the initialized flag
IsFirstRead(s) == ~s.initialized

\* codec_video_encoder_read_packet
EncReadPacket ==
    /\ direction = "Encode"
    /\ codec.state = "live"
    /\ Len(enc_out) < MaxReads
    /\ IF ~codec.context \/ ~codec.output_packet
       THEN /\ codec_ret' = << "read_packet", "null" >>
            /\ UNCHANGED << codec, engine, enc_out >>
       ELSE IF IsFirstRead(codec)
       THEN LET pkt == [ flags |-> ConfigFlag, src |-> "extradata" ]
            IN  /\ codec' = [ codec EXCEPT !.initialized = TRUE, !.out_pkt = pkt ]
                /\ enc_out' = Append(enc_out, pkt)
                /\ codec_ret' = << "read_packet", "packet" >>
                /\ engine' = engine
       ELSE IF engine = << >>
       THEN /\ codec_ret' = << "read_packet", "null" >>
            /\ UNCHANGED << codec, engine, enc_out >>
       ELSE LET pkt == [ flags |-> Head(engine), src |-> "engine" ]
            IN  /\ codec' = [ codec EXCEPT !.out_pkt = pkt, !.pkt_ref = TRUE ]
                /\ enc_out' = Append(enc_out, pkt)
                /\ codec_ret' = << "read_packet", "packet" >>
                /\ engine' = Tail(engine)
    /\ UNCHANGED << direction, stream, sent, cut, call, pars, pkt_size, submitted,
                    frames_read, failed, rel_log >>
    /\ UNCHANGED << captureVars, auxVars >>

\* h264.cpp:294-303: the pixel format of the session's frame
FrameFormat(s) == IF s.name = "h264_qsv" THEN "qsv" ELSE "nv12"

\* what a copy_frame call does with the frame it is given
CopyEffect(s, hardware, writable) ==
    IF ~s.context THEN "nothing"
    ELSE IF hardware
    THEN IF FrameFormat(s) = "qsv" THEN "substituted" ELSE "nothing"
    ELSE IF writable THEN "copied" ELSE "nothing"

\* a copy_frame that writes the session's output packet as well
MutCopyFrame(hardware, writable) ==
    LET did == CopyEffect(codec, hardware, writable) IN
    /\ codec' = [ codec EXCEPT !.frame_data = IF did = "substituted" THEN "handles"
                                              ELSE IF did = "copied" THEN "pixels"
                                              ELSE @,
                               !.out_pkt = [ flags |-> 0, src |-> "none" ] ]
    /\ codec_ret' = << "copy_frame",
                       IF codec.context /\ (hardware \/ writable) THEN "true" ELSE "false",
                       hardware, did >>

\* h264.cpp:376-423; writable is av_frame_make_writable succeeding. The result holds
\* the return value, whether the frame was a hardware surface, and what was done
codec_video_encoder_copy_frame(hardware, writable) ==
    LET did == CopyEffect(codec, hardware, writable) IN
    /\ codec' = [ codec EXCEPT !.frame_data = IF did = "substituted" THEN "handles"
                                              ELSE IF did = "copied" THEN "pixels"
                                              ELSE @ ]
    /\ codec_ret' = << "copy_frame",
                       IF codec.context /\ (hardware \/ writable) THEN "true" ELSE "false",
                       hardware, did >>

EncCopyFrame(hardware, writable) ==
    /\ direction = "Encode"
    /\ codec.state = "live"
    /\ codec_video_encoder_copy_frame(hardware, writable)
    /\ UNCHANGED << direction, stream, sent, cut, call, pars, pkt_size, submitted,
                    engine, frames_read, failed, enc_out, rel_log >>
    /\ UNCHANGED << captureVars, auxVars >>

\* h264.cpp:478-481: codec_unref_video_encoder_packet
EncUnrefPacket ==
    /\ direction = "Encode"
    /\ codec.state = "live"
    /\ codec.packet
    /\ codec' = [ codec EXCEPT !.pkt_ref = FALSE ]
    /\ codec_ret' = << "unref_packet", "void" >>
    /\ UNCHANGED << direction, stream, sent, cut, call, pars, pkt_size, submitted,
                    engine, frames_read, failed, enc_out, rel_log >>
    /\ UNCHANGED << captureVars, auxVars >>

\* whether the buffer the output packet points to is still allocated
PacketValid(s) ==
    \/ s.out_pkt.src = "extradata" /\ s.context
    \/ s.out_pkt.src = "engine" /\ s.pkt_ref

\* codec_release_video_encoder on a session that create returned
EncRelease ==
    /\ direction = "Encode"
    /\ codec.state = "live"
    /\ rel_log' = EncoderReleaseSeq(codec)
    /\ codec' = Gone(codec, "released")
    /\ codec_ret' = << "release", "void" >>
    /\ UNCHANGED << direction, stream, sent, cut, call, pars, pkt_size, submitted,
                    engine, frames_read, failed, enc_out >>
    /\ UNCHANGED << captureVars, auxVars >>

(***************************************************************************)
(* The decoder: codec_create_video_decoder .. codec_release_video_decoder  *)
(* of h264.cpp and the audio decoder of audio_decode.cpp.                  *)
(***************************************************************************)

IsAudio(s) == s.name \in AudioDecoderNames

RECURSIVE AuEnd(_)
\* the offset in the stream of the byte after access unit i
AuEnd(i) == IF i = 0 THEN 0 ELSE AuEnd(i - 1) + stream[i]

StreamBytes == AuEnd(Len(stream))

\* the access units that end at or before offset pos
CompleteAUs(pos) == Cardinality({ i \in 1..Len(stream) : AuEnd(i) <= pos })

Min(a, b) == IF a < b THEN a ELSE b

\* av_parser_parse2: the parser consumes at least one byte of the buffer and never
\* reads past the end of the access unit it is assembling
ParserConsumes(pos, size) ==
    IF pos >= StreamBytes THEN { }
    ELSE 1..Min(size, AuEnd(CompleteAUs(pos) + 1) - pos)

\* av_parser_parse2: packet->size is set when the access unit is complete (its
\* number stands for the non-zero size), and is 0 otherwise
ParserOutput(pos) ==
    IF \E i \in 1..Len(stream) : AuEnd(i) = pos THEN CompleteAUs(pos) ELSE 0

\* codec_create_video_decoder; fail names the first call of it that fails
codec_create_video_decoder(name, fail) ==
    LET made == [ NoCodec EXCEPT
                    !.name = name,
                    !.context = TRUE,
                    !.hw_device_ctx = HwDevice("Decode", name),
                    !.hw_frames_ctx = HwFrames("Decode", name),
                    !.parser = fail \in { "packet", "none" },
                    !.packet = fail = "none",
                    !.output_frame = TRUE ]
    IN  IF fail \in { "ctx", "hw" }
        THEN /\ codec' = [ NoCodec EXCEPT !.state = "failed", !.name = name,
                                          !.output_frame = TRUE ]
             /\ rel_log' = rel_log
        ELSE IF fail # "none"
        THEN /\ codec' = Gone(made, "failed")
             /\ rel_log' = DecoderReleaseSeq(made)
        ELSE /\ codec' = [ made EXCEPT !.state = "live" ]
             /\ rel_log' = rel_log

\* codec_release_audio_decoder: the release calls it makes, in order
AudioReleaseSeq(s) ==
    Opt(s.context, "context")
        \o Opt(s.parser, "parser")
        \o Opt(s.packet, "packet")
        \o Opt(s.frame # "null", "frame")
        \o << "output_frame", "session" >>

\* codec_create_audio_decoder; fail names the first call of it that fails
codec_create_audio_decoder(name, fail) ==
    LET made == [ NoCodec EXCEPT
                    !.name = name,
                    !.context = fail \notin { "find", "alloc" },
                    !.parser = fail \in { "packet", "frame", "none" },
                    !.packet = fail \in { "frame", "none" },
                    !.frame = IF fail = "none" THEN "empty" ELSE "null",
                    !.output_frame = TRUE ]
    IN  IF fail # "none"
        THEN /\ codec' = Gone(made, "failed")
             /\ rel_log' = AudioReleaseSeq(made)
        ELSE /\ codec' = [ made EXCEPT !.state = "live" ]
             /\ rel_log' = rel_log

DecCreate(name, fail) ==
    /\ direction = "Decode"
    /\ codec.state = "none"
    /\ IF name \in AudioDecoderNames
       THEN fail \in AudioDecoderFails /\ codec_create_audio_decoder(name, fail)
       ELSE /\ fail \in DecoderFails
            /\ fail = "hw" => HwDevice("Decode", name)
            /\ codec_create_video_decoder(name, fail)
    /\ codec_ret' = << "create", IF fail = "none" THEN "session" ELSE "null" >>
    /\ create_in' = [ name |-> name, fail |-> fail ]
    /\ UNCHANGED << direction, stream, sent, cut, call, pars, pkt_size, submitted,
                    engine, frames_read, failed, enc_out >>
    /\ UNCHANGED << captureVars, enum_ret, findVars, bridgeVars, gdiVars, svcVars, extVars >>

MutNullBuffer(buf) == FALSE

\* codec_video_decoder_send_packet: if (buf == nullptr)
NullBuffer(buf) == buf = "null"

MutParseLoopContinues(size) == FALSE

\* codec_video_decoder_send_packet: while (size)
ParseLoopContinues(size) == size # 0

\* codec_video_decoder_send_packet and codec_audio_decoder_send_packet, up to the
\* first test of the parse loop.  A buffer of the stream carries its next len bytes.
DecSendPacket(buf, len) ==
    /\ direction = "Decode"
    /\ codec.state = "live"
    /\ call.pc = "idle"
    /\ ~failed
    /\ buf = "data" => len <= StreamBytes - sent
    /\ IF buf = "data" /\ len > 0
       THEN /\ sent' = sent + len
            /\ cut' = (cut \/ (sent > 0 /\ ParserOutput(sent) = 0))
       ELSE UNCHANGED << sent, cut >>
    /\ IF ~IsAudio(codec) /\ ~codec.context
       THEN /\ codec_ret' = << "send_packet", buf, len > 0, "false" >>
            /\ call' = call
       ELSE IF NullBuffer(buf)
       THEN /\ codec_ret' = << "send_packet", buf, len > 0, "true" >>
            /\ call' = call
       ELSE IF ~ParseLoopContinues(len)
       THEN /\ codec_ret' = << "send_packet", buf, len > 0, "true" >>
            /\ call' = call
       ELSE /\ codec_ret' = << "send_packet", buf, len > 0, "pending" >>
            /\ call' = [ pc |-> "parse", size |-> len, odd |-> FALSE ]
    /\ UNCHANGED << direction, codec, stream, pars, pkt_size, submitted, engine,
                    frames_read, failed, enc_out, rel_log >>
    /\ UNCHANGED << captureVars, auxVars >>

\* one pass of the parse loop: c is what av_parser_parse2 consumes, perr its
\* failure, eerr the failure of avcodec_send_packet
DecParseStep(c, perr, eerr) ==
    /\ direction = "Decode"
    /\ call.pc = "parse"
    /\ c \in ParserConsumes(pars, call.size)
    /\ eerr => ~perr /\ ParserOutput(pars + c) # 0
    /\ IF perr
       THEN /\ codec_ret' = << "send_packet", codec_ret[2], codec_ret[3], "false" >>
            /\ call' = NoCall
            /\ failed' = TRUE
            /\ UNCHANGED << pars, pkt_size, submitted, engine >>
       ELSE /\ pars' = pars + c
            /\ pkt_size' = ParserOutput(pars + c)
            /\ IF pkt_size' # 0 /\ eerr
               THEN /\ codec_ret' = << "send_packet", codec_ret[2], codec_ret[3], "false" >>
                    /\ call' = NoCall
                    /\ failed' = TRUE
                    /\ UNCHANGED << submitted, engine >>
               ELSE /\ submitted' = IF pkt_size' # 0 THEN Append(submitted, pkt_size')
                                                     ELSE submitted
                    /\ engine' = IF pkt_size' # 0 THEN Append(engine, pkt_size')
                                                  ELSE engine
                    /\ failed' = failed
                    /\ IF ParseLoopContinues(call.size - c)
                       THEN /\ call' = [ call EXCEPT !.size = call.size - c ]
                            /\ codec_ret' = codec_ret
                       ELSE /\ call' = NoCall
                            /\ codec_ret' = << "send_packet", codec_ret[2],
                                               codec_ret[3], "true" >>
    /\ UNCHANGED << direction, codec, stream, sent, cut, frames_read, enc_out, rel_log >>
    /\ UNCHANGED << captureVars, auxVars >>

\* a pass of the parse loop in which av_parser_parse2 returns 0 and gives out no
\* access unit: buf and size stay as they were and the loop tests `size` again
DecParseZero ==
    /\ direction = "Decode"
    /\ call.pc = "parse"
    /\ pkt_size' = 0
    /\ call' = [ call EXCEPT !.odd = ~ @ ]
    /\ UNCHANGED << direction, codec, stream, sent, cut, pars, submitted, engine,
                    frames_read, failed, enc_out, rel_log, codec_ret >>
    /\ UNCHANGED << captureVars, auxVars >>

\* any pass of the parse loop
ParsePass ==
    \/ DecParseZero
    \/ \E c \in 1..MaxChunk, perr \in BOOLEAN, eerr \in BOOLEAN : DecParseStep(c, perr, eerr)

\* AVFrame.format of what the engine gives out for the session's codec
FrameFormats(s) ==
    IF s.name = "d3d11va" THEN { "d3d11" }
    ELSE IF s.name = "h264_qsv" THEN { "qsv" }
    ELSE { "yuv420p", "other" }

\* codec_video_decoder_read_frame: output_frame->data[0] after a frame of format fmt
OutData(s, fmt) ==
    IF fmt = "yuv420p" THEN (IF s.out_data = "null" THEN "alloc" ELSE s.out_data)
    ELSE IF fmt \in { "qsv", "d3d11" } THEN "hw"
    ELSE "engine"

\* codec_video_decoder_read_frame: the size the conversion buffer is allocated for
OutSize(s, fmt, size) ==
    IF fmt = "yuv420p" /\ s.out_data = "null" THEN size ELSE s.out_size

\* codec_video_decoder_read_frame: I420ToNV12 writes size bytes into the buffer the
\* session allocated; past its end the behaviour is undefined
Overrun(s, fmt, size) ==
    fmt = "yuv420p" /\ s.out_data = "alloc" /\ s.out_size < size

\* codec_video_decoder_read_frame; allocok is av_frame_alloc succeeding, size the
\* width x height of the frame the engine gives out
codec_video_decoder_read_frame(fmt, allocok, size) ==
    IF ~codec.context
    THEN /\ codec_ret' = << "read_frame", "null" >>
         /\ UNCHANGED << codec, engine, frames_read >>
    ELSE IF ~allocok
    THEN /\ codec' = [ codec EXCEPT !.frame = "null" ]
         /\ codec_ret' = << "read_frame", "null" >>
         /\ UNCHANGED << engine, frames_read >>
    ELSE IF engine = << >>
    THEN /\ codec' = [ codec EXCEPT !.frame = "empty" ]
         /\ codec_ret' = << "read_frame", "null" >>
         /\ UNCHANGED << engine, frames_read >>
    ELSE /\ codec' = [ codec EXCEPT
                         !.state = IF Overrun(codec, fmt, size) THEN "undefined" ELSE @,
                         !.frame = fmt,
                         !.frame_size = size,
                         !.out_data = OutData(codec, fmt),
                         !.out_size = OutSize(codec, fmt, size),
                         !.hw_frames_ctx = @ \/ fmt \in { "qsv", "d3d11" } ]
         /\ engine' = Tail(engine)
         /\ frames_read' = frames_read + 1
         /\ codec_ret' = << "read_frame", "frame" >>

\* codec_audio_decoder_read_frame
codec_audio_decoder_read_frame ==
    IF engine = << >>
    THEN /\ codec_ret' = << "read_frame", "null" >>
         /\ UNCHANGED << codec, engine, frames_read >>
    ELSE /\ codec' = [ codec EXCEPT !.frame = "samples" ]
         /\ engine' = Tail(engine)
         /\ frames_read' = frames_read + 1
         /\ codec_ret' = << "read_frame", "frame" >>

DecReadFrame(fmt, allocok, size) ==
    /\ direction = "Decode"
    /\ codec.state = "live"
    /\ call.pc = "idle"
    /\ IF IsAudio(codec)
       THEN fmt = "samples" /\ allocok /\ size = MaxFrameSize
                /\ codec_audio_decoder_read_frame
       ELSE fmt \in FrameFormats(codec)
                /\ codec_video_decoder_read_frame(fmt, allocok, size)
    /\ UNCHANGED << direction, stream, sent, cut, call, pars, pkt_size, submitted,
                    failed, enc_out, rel_log >>
    /\ UNCHANGED << captureVars, auxVars >>

\* codec_release_video_decoder / codec_release_audio_decoder on a session that
\* create returned
DecRelease ==
    /\ direction = "Decode"
    /\ codec.state = "live"
    /\ call.pc = "idle"
    /\ rel_log' = IF IsAudio(codec) THEN AudioReleaseSeq(codec)
                                    ELSE DecoderReleaseSeq(codec)
    /\ codec' = Gone(codec, "released")
    /\ codec_ret' = << "release", "void" >>
    /\ UNCHANGED << direction, stream, sent, cut, call, pars, pkt_size, submitted,
                    engine, frames_read, failed, enc_out >>
    /\ UNCHANGED << captureVars, auxVars >>

AllFormats == { "yuv420p", "qsv", "d3d11", "other", "samples" }

CodecNext ==
    \/ \E name \in EncoderNames, fail \in EncoderFails : EncCreate(name, fail)
    \/ \E ok \in BOOLEAN, out \in { << >> } \cup { << f >> : f \in EngineFlags } :
           EncSendFrame(ok, out)
    \/ EncReadPacket
    \/ EncRelease
    \/ \E name \in DecoderNames \cup AudioDecoderNames,
          fail \in DecoderFails \cup AudioDecoderFails : DecCreate(name, fail)
    \/ \E buf \in { "null", "data" }, len \in 0..MaxChunk : DecSendPacket(buf, len)
    \/ \E c \in 1..MaxChunk, perr \in BOOLEAN, eerr \in BOOLEAN : DecParseStep(c, perr, eerr)
    \/ \E fmt \in AllFormats, allocok \in BOOLEAN :
           DecReadFrame(fmt, allocok, MaxFrameSize)
    \/ DecRelease

\* codec.cpp:10-21: the hardware codecs in the order they are tried, and the defaults
DefaultVideoDecoder == "h264"

VideoDecoders == << [ name |-> "d3d11va", type |-> "D3D11VA" ],
                    [ name |-> "h264_qsv", type |-> "QSV" ],
                    [ name |-> "h264_cuvid", type |-> "CUDA" ] >>

DefaultVideoEncoder == "libx264"

VideoEncoders == << [ name |-> "h264_qsv", type |-> "QSV" ],
                    [ name |-> "h264_nvenc", type |-> "CUDA" ] >>

HwDeviceTypes == { "D3D11VA", "QSV", "CUDA" }

\* codec.cpp:180-187: the loop from entry i on; av_hwdevice_ctx_create succeeds for the
\* types of `avail`
RECURSIVE FindLoop(_, _, _, _)
FindLoop(codecs, i, kind, avail) ==
    IF i > Len(codecs)
    THEN IF kind = "Encoder" THEN DefaultVideoEncoder ELSE DefaultVideoDecoder
    ELSE IF codecs[i].type \in avail
    THEN codecs[i].name
    ELSE FindLoop(codecs, i + 1, kind, avail)

\* the search that keeps the last codec whose device can be created
RECURSIVE MutFindLoop(_, _, _, _)
MutFindLoop(codecs, i, kind, avail) ==
    IF i > Len(codecs)
    THEN IF kind = "Encoder" THEN DefaultVideoEncoder ELSE DefaultVideoDecoder
    ELSE LET rest == MutFindLoop(codecs, i + 1, kind, avail) IN
         IF codecs[i].type \in avail /\ rest \in { DefaultVideoEncoder, DefaultVideoDecoder }
         THEN codecs[i].name
         ELSE rest

MutFindVideoCodec(codecs, kind, avail) == MutFindLoop(codecs, 1, kind, avail)

\* codec.cpp:176-195
find_video_codec(codecs, kind, avail) == FindLoop(codecs, 1, kind, avail)

\* codec.cpp:197-200
codec_find_video_encoder == find_video_codec(VideoEncoders, "Encoder", hw_avail)

\* codec.cpp:202-205
codec_find_video_decoder == find_video_codec(VideoDecoders, "Decoder", hw_avail)

FindVideoEncoder ==
    /\ Len(find_log) < MaxFinds
    /\ find_log' = Append(find_log, [ kind |-> "Encoder", name |-> codec_find_video_encoder ])
    /\ UNCHANGED << captureVars, codecVars, enum_ret, create_in, hw_avail, bridgeVars, gdiVars, svcVars, extVars >>

FindVideoDecoder ==
    /\ Len(find_log) < MaxFinds
    /\ find_log' = Append(find_log, [ kind |-> "Decoder", name |-> codec_find_video_decoder ])
    /\ UNCHANGED << captureVars, codecVars, enum_ret, create_in, hw_avail, bridgeVars, gdiVars, svcVars, extVars >>

\* ------------------------------------------ h264.cpp: the format conversion
\* no frame: nothing decoded, converted or read back yet
NoFrame == [ width |-> 0, height |-> 0 ]

\* the byte of a plane that lies in the padding of a row, and of memory never written
Padding == 255

Uninit == 256

\* a plane of rows x cols pixels stored with `stride` bytes a row; the pixel at column
\* x of row r holds (base + x + cols * r) % 256, so every position has its own value
Plane(cols, rows, stride, base) ==
    [ k \in 0..(stride * rows - 1) |->
        LET x == k % stride
            r == k \div stride
        IN  IF x < cols THEN (base + x + cols * r) % 256 ELSE Padding ]

HalfOf(n) == (n + 1) \div 2

\* the AVFrame of format AV_PIX_FMT_YUV420P the engine gives out: data[0..2] with
\* linesize[0..2]
PlanarFrame(w, h, pad, seed) ==
    [ width |-> w, height |-> h,
      linesize |-> << w + pad, HalfOf(w) + pad, HalfOf(w) + pad >>,
      y |-> Plane(w, h, w + pad, seed),
      u |-> Plane(HalfOf(w), HalfOf(h), HalfOf(w) + pad, seed + 64),
      v |-> Plane(HalfOf(w), HalfOf(h), HalfOf(w) + pad, seed + 128) ]

\* h264.cpp:168-170: the buffer read_frame allocates for a frame of w x h pixels
YSize(w, h) == w * h

UvSize(w, h) == (w * h) \div 2

\* the conversion that interleaves V first
MutI420ToNV12Writes(f, dst_stride_y, dst_stride_uv, uv_off) ==
    { << r * dst_stride_y + x, f.y[r * f.linesize[1] + x], r >> :
          x \in 0..(f.width - 1), r \in 0..(f.height - 1) }
        \cup { << uv_off + r * dst_stride_uv + 2 * c + 1, f.u[r * f.linesize[2] + c],
                  f.height + r >> :
                  c \in 0..(HalfOf(f.width) - 1), r \in 0..(HalfOf(f.height) - 1) }
        \cup { << uv_off + r * dst_stride_uv + 2 * c, f.v[r * f.linesize[3] + c],
                  f.height + r >> :
                  c \in 0..(HalfOf(f.width) - 1), r \in 0..(HalfOf(f.height) - 1) }

\* libyuv::I420ToNV12 as h264.cpp:174-185 calls it: the writes it makes, each as
\* << offset from data[0], byte, order >>; the luma plane is copied row by row and
\* the two chroma planes are interleaved, U first, into rows of dst_stride_uv bytes
\* that start at data[1] = data[0] + y_size
I420ToNV12Writes(f, dst_stride_y, dst_stride_uv, uv_off) ==
    { << r * dst_stride_y + x, f.y[r * f.linesize[1] + x], r >> :
          x \in 0..(f.width - 1), r \in 0..(f.height - 1) }
        \cup { << uv_off + r * dst_stride_uv + 2 * c, f.u[r * f.linesize[2] + c],
                  f.height + r >> :
                  c \in 0..(HalfOf(f.width) - 1), r \in 0..(HalfOf(f.height) - 1) }
        \cup { << uv_off + r * dst_stride_uv + 2 * c + 1, f.v[r * f.linesize[3] + c],
                  f.height + r >> :
                  c \in 0..(HalfOf(f.width) - 1), r \in 0..(HalfOf(f.height) - 1) }

\* the memory of `size` bytes after the writes: a byte holds what was written last
Written(size, writes) ==
    [ k \in 0..(size - 1) |->
        LET at == { wr \in writes : wr[1] = k } IN
        IF at = {} THEN Uninit
        ELSE (CHOOSE wr \in at : \A other \in at : other[3] <= wr[3])[2] ]

\* h264.cpp:155-185: the output frame of a YUV420P frame on a fresh session; a write
\* past the end of the allocation is undefined behaviour
ConvertedFrame(f) ==
    LET size == YSize(f.width, f.height) + UvSize(f.width, f.height)
        writes == I420ToNV12Writes(f, f.width, f.width, YSize(f.width, f.height))
    IN  [ width |-> f.width, height |-> f.height,
          linesize |-> << f.width, f.width >>,
          uv_off |-> YSize(f.width, f.height),
          data |-> Written(size, writes),
          overrun |-> \E wr \in writes : wr[1] >= size ]

\* the reference inverse: the planar frame a consumer reads out of the output frame
\* through data[0], data[1] and the two line sizes
NV12ToI420(o) ==
    [ width |-> o.width, height |-> o.height,
      y |-> [ k \in 0..(o.width * o.height - 1) |->
                o.data[(k \div o.width) * o.linesize[1] + (k % o.width)] ],
      u |-> [ k \in 0..(HalfOf(o.width) * HalfOf(o.height) - 1) |->
                o.data[o.uv_off + (k \div HalfOf(o.width)) * o.linesize[2]
                       + 2 * (k % HalfOf(o.width))] ],
      v |-> [ k \in 0..(HalfOf(o.width) * HalfOf(o.height) - 1) |->
                o.data[o.uv_off + (k \div HalfOf(o.width)) * o.linesize[2]
                       + 2 * (k % HalfOf(o.width)) + 1] ] ]

\* codec_video_decoder_read_frame on the frame the engine holds
BridgeConvert ==
    /\ src_frame.width > 0
    /\ nv12.width = 0
    /\ nv12' = ConvertedFrame(src_frame)
    /\ UNCHANGED << captureVars, codecVars, enum_ret, create_in, findVars, src_frame, back,
                    gdiVars, svcVars, extVars >>

\* the consumer reads the planes back
BridgeInvert ==
    /\ nv12.width > 0
    /\ ~ nv12.overrun
    /\ back.width = 0
    /\ back' = NV12ToI420(nv12)
    /\ UNCHANGED << captureVars, codecVars, enum_ret, create_in, findVars, src_frame, nv12,
                    gdiVars, svcVars, extVars >>

\* the frames an H.264 engine gives out in 4:2:0: both dimensions are even
FrameDims == { 2 * n : n \in 1..MaxHalfDim }

\* ------------------------------------------------ desktop.cpp: GDICapture
\* desktop.h:33-34: a constructed object
GdiInit ==
    /\ gdi = [ is_runing |-> FALSE, data |-> 0, alive |-> TRUE ]
    /\ workers = [ w \in 1..MaxStarts |-> [ pc |-> "none", buf |-> 0 ] ]
    /\ stopped = {}

\* the StartCapture calls made so far
Starts == Cardinality({ w \in 1..MaxStarts : workers[w].pc # "none" })

\* the worker threads that have not left their lambda
Running == { w \in 1..MaxStarts : workers[w].pc \in { "check", "blit", "sink" } }

\* desktop.cpp:185-194: the buffer is deleted and the pointers are cleared
release_frame(g) == [ g EXCEPT !.data = 0 ]

\* desktop.cpp:50-165: the frame is released and allocated anew, the flag is set and
\* a detached thread is started
GdiStartCapture ==
    /\ gdi.alive
    /\ Starts < MaxStarts
    /\ gdi' = [ release_frame(gdi) EXCEPT !.data = Starts + 1, !.is_runing = TRUE ]
    /\ workers' = [ workers EXCEPT ![Starts + 1] = [ pc |-> "check", buf |-> 0 ] ]
    /\ UNCHANGED stopped
    /\ UNCHANGED << captureVars, codecVars, enum_ret, create_in, findVars, bridgeVars, svcVars, extVars >>

\* desktop.cpp:160-163
GdiStopCapture ==
    /\ gdi.alive
    /\ gdi' = [ gdi EXCEPT !.is_runing = FALSE ]
    /\ stopped' = stopped \cup Running
    /\ UNCHANGED workers
    /\ UNCHANGED << captureVars, codecVars, enum_ret, create_in, findVars, bridgeVars, svcVars, extVars >>

\* desktop.cpp:19-23: the destructor
GdiDestroy ==
    /\ gdi.alive
    /\ gdi' = [ release_frame(gdi) EXCEPT !.is_runing = FALSE, !.alive = FALSE ]
    /\ UNCHANGED << workers, stopped >>
    /\ UNCHANGED << captureVars, codecVars, enum_ret, create_in, findVars, bridgeVars, svcVars, extVars >>

\* desktop.cpp:75-81: the loop condition and the test of the frame pointer; a read of
\* a destroyed object gives any value
WorkerCheck(w, seen) ==
    /\ workers[w].pc = "check"
    /\ gdi.alive => seen = gdi.is_runing
    /\ workers' = [ workers EXCEPT ![w].pc = IF seen /\ gdi.data # 0 THEN "blit"
                                             ELSE "exit" ]
    /\ UNCHANGED << gdi, stopped >>
    /\ UNCHANGED << captureVars, codecVars, enum_ret, create_in, findVars, bridgeVars, svcVars, extVars >>

\* desktop.cpp:83-147: the screen is read and converted into _frame.data[0], and the
\* callback is called with &_frame; any call that fails ends the loop
WorkerBlit(w, ok) ==
    /\ workers[w].pc = "blit"
    /\ workers' = [ workers EXCEPT ![w] = IF ok THEN [ pc |-> "sink", buf |-> gdi.data ]
                                          ELSE [ pc |-> "exit", buf |-> 0 ] ]
    /\ UNCHANGED << gdi, stopped >>
    /\ UNCHANGED << captureVars, codecVars, enum_ret, create_in, findVars, bridgeVars, svcVars, extVars >>

\* desktop.cpp:147-150: the callback returns
WorkerReturn(w) ==
    /\ workers[w].pc = "sink"
    /\ workers' = [ workers EXCEPT ![w] = [ pc |-> "check", buf |-> 0 ] ]
    /\ UNCHANGED << gdi, stopped >>
    /\ UNCHANGED << captureVars, codecVars, enum_ret, create_in, findVars, bridgeVars, svcVars, extVars >>

WorkerStep(w) ==
    \/ \E seen \in BOOLEAN : WorkerCheck(w, seen)
    \/ \E ok \in BOOLEAN : WorkerBlit(w, ok)
    \/ WorkerReturn(w)

\* ------------------------------------------------ napi/src/capture.cpp: CaptureService
\* a device of the list a get_devices call was given by mirror_get_devices
DeviceOf(n, kind, index) == [ call |-> n, kind |-> kind, index |-> index ]

NoDevice == DeviceOf(0, "none", 0)

\* capture.h:26: std::nullopt
NoDevices == [ has |-> FALSE, call |-> 0, kind |-> "none", size |-> 0 ]

SvcInit ==
    /\ svc_devices = NoDevices
    /\ gets = 0
    /\ objects = {}
    /\ applied = [ result |-> "none", object |-> NoDevice, device |-> NoDevice ]

\* capture.cpp:84-94: the object carries the name, the kind and the position
create_device_object(n, kind, index) == DeviceOf(n, kind, index)

\* capture.cpp:96-127: the list of `size` devices of `kind` replaces _devices and
\* the script is given one object per device
GetDevices(kind, size) ==
    /\ gets < MaxGets
    /\ gets' = gets + 1
    /\ svc_devices' = [ has |-> TRUE, call |-> gets + 1, kind |-> kind, size |-> size ]
    /\ objects' = objects \cup
                    { create_device_object(gets + 1, kind, i) : i \in 0..(size - 1) }
    /\ UNCHANGED applied
    /\ UNCHANGED << captureVars, codecVars, enum_ret, create_in, findVars, bridgeVars,
                    gdiVars, extVars >>

\* capture.cpp:129-162: the object's index is looked up in _devices; `ok` is what
\* mirror_set_input_device returns
SetInputDevice(object, ok) ==
    /\ object \in objects
    /\ applied' =
         IF ~ svc_devices.has
         THEN [ result |-> "devices is empty", object |-> object, device |-> NoDevice ]
         ELSE IF object.index >= svc_devices.size
         THEN [ result |-> "device not found", object |-> object, device |-> NoDevice ]
         ELSE [ result |-> IF ok THEN "set" ELSE "failed to set device",
                object |-> object,
                device |-> DeviceOf(svc_devices.call, svc_devices.kind, object.index) ]
    /\ UNCHANGED << svc_devices, gets, objects >>
    /\ UNCHANGED << captureVars, codecVars, enum_ret, create_in, findVars, bridgeVars,
                    gdiVars, extVars >>

\* capture.cpp:70-82: the list is destroyed and _devices is emptied
StopCapture ==
    /\ svc_devices.has
    /\ svc_devices' = NoDevices
    /\ UNCHANGED << gets, objects, applied >>
    /\ UNCHANGED << captureVars, codecVars, enum_ret, create_in, findVars, bridgeVars,
                    gdiVars, extVars >>

\* ------------------------------------------------ desktop/src/main.cpp: MirrorService
\* main.cpp:265-268: the members as declared
MsInit ==
    /\ msvc = [ is_runing |-> TRUE, sender |-> 0, receiver |-> 0, nested |-> 0 ]
    /\ handles_made = 0
    /\ destroys = [ h \in 1..MaxHandles |-> 0 ]
    /\ stack = << >>

MsRest == UNCHANGED << captureVars, codecVars, enum_ret, create_in, findVars, bridgeVars,
                       gdiVars, svcVars, vencVars, hylVars >>

\* main.cpp:153-213: `ok` is whether mirror_create_sender gave a handle
CreateMirrorSender(ok) ==
    /\ stack = << >>
    /\ handles_made < MaxHandles
    /\ IF msvc.sender # 0
       THEN UNCHANGED << msvc, handles_made >>
       ELSE IF ok
       THEN /\ handles_made' = handles_made + 1
            /\ msvc' = [ msvc EXCEPT !.sender = handles_made + 1, !.is_runing = TRUE ]
       ELSE UNCHANGED << msvc, handles_made >>
    /\ UNCHANGED << destroys, stack >>
    /\ MsRest

\* main.cpp:215-239
CreateMirrorReceiver(ok) ==
    /\ stack = << >>
    /\ handles_made < MaxHandles
    /\ IF msvc.receiver # 0
       THEN UNCHANGED << msvc, handles_made >>
       ELSE IF ok
       THEN /\ handles_made' = handles_made + 1
            /\ msvc' = [ msvc EXCEPT !.receiver = handles_made + 1, !.is_runing = TRUE ]
       ELSE UNCHANGED << msvc, handles_made >>
    /\ UNCHANGED << destroys, stack >>
    /\ MsRest

Top == stack[Len(stack)]

SetTop(pc) == [ stack EXCEPT ![Len(stack)] = pc ]

Pop == SubSeq(stack, 1, Len(stack) - 1)

MutCloseProceeds(s) == TRUE

\* main.cpp:243: the test that lets a Close() call go on
CloseProceeds(s) == s.is_runing

\* main.cpp:304-324, 462: the message loop calls Close()
CloseCall ==
    /\ stack = << >>
    /\ stack' = << "enter" >>
    /\ UNCHANGED << msvc, handles_made, destroys >>
    /\ MsRest

\* main.cpp:243-250: the flag is cleared, or the call returns
CloseEnter ==
    /\ stack # << >>
    /\ Top = "enter"
    /\ IF CloseProceeds(msvc)
       THEN /\ msvc' = [ msvc EXCEPT !.is_runing = FALSE ]
            /\ stack' = SetTop("sender")
       ELSE /\ msvc' = [ msvc EXCEPT !.nested = IF Len(stack) > 1 THEN 1 ELSE @ ]
            /\ stack' = Pop
    /\ UNCHANGED << handles_made, destroys >>
    /\ MsRest

\* main.cpp:252-254, 280-284: mirror_sender_destroy; when `fires`, the library
\* calls close_proc, which calls Close(), before the destroy call returns
CloseSender(fires) ==
    /\ stack # << >>
    /\ Top = "sender"
    /\ fires => Len(stack) < MaxDepth
    /\ IF msvc.sender # 0
       THEN /\ destroys' = [ destroys EXCEPT ![msvc.sender] = @ + 1 ]
            /\ stack' = IF fires THEN Append(SetTop("sender_destroyed"), "enter")
                                  ELSE SetTop("sender_destroyed")
       ELSE /\ ~ fires
            /\ stack' = SetTop("receiver")
            /\ UNCHANGED destroys
    /\ UNCHANGED << msvc, handles_made >>
    /\ MsRest

\* main.cpp:255: _sender = nullptr
CloseSenderDone ==
    /\ stack # << >>
    /\ Top = "sender_destroyed"
    /\ msvc' = [ msvc EXCEPT !.sender = 0 ]
    /\ stack' = SetTop("receiver")
    /\ UNCHANGED << handles_made, destroys >>
    /\ MsRest

\* main.cpp:258-260: mirror_receiver_destroy, with the same callback
CloseReceiver(fires) ==
    /\ stack # << >>
    /\ Top = "receiver"
    /\ fires => Len(stack) < MaxDepth
    /\ IF msvc.receiver # 0
       THEN /\ destroys' = [ destroys EXCEPT ![msvc.receiver] = @ + 1 ]
            /\ stack' = IF fires THEN Append(SetTop("receiver_destroyed"), "enter")
                                  ELSE SetTop("receiver_destroyed")
       ELSE /\ ~ fires
            /\ stack' = Pop
            /\ UNCHANGED destroys
    /\ UNCHANGED << msvc, handles_made >>
    /\ MsRest

\* main.cpp:261-263: _receiver = nullptr and the call returns
CloseReceiverDone ==
    /\ stack # << >>
    /\ Top = "receiver_destroyed"
    /\ msvc' = [ msvc EXCEPT !.receiver = 0 ]
    /\ stack' = Pop
    /\ UNCHANGED << handles_made, destroys >>
    /\ MsRest

\* ------------------------------------------------ video_encoder.c: VideoEncoder
VencInit ==
    /\ venc = [ open |-> FALSE, frame_rate |-> 0, frame_num |-> 0, ret |-> 0 ]
    /\ offered = << >>

\* ------------------------------------------------ cpp/src/main.cpp: HylaranaService
\* main.cpp:172-175: the members as declared
HylInit ==
    /\ hyl = [ is_runing |-> TRUE, discovery |-> 0, receiver |-> 0, sender |-> 0,
               ret |-> "none" ]
    /\ hlive = {}
    /\ hquery = {}
    /\ hlost = {}
    /\ hmade = 0

ExtInit == MsInit /\ VencInit /\ HylInit

HylRest == UNCHANGED << captureVars, codecVars, enum_ret, create_in, findVars, bridgeVars,
                        gdiVars, svcVars, msVars, vencVars >>

\* a pointer member is assigned: the handle it held, if live, has no pointer left
Overwritten(old) == IF old \in hlive THEN { old } ELSE {}

\* main.cpp:45-123: `sok` and `dok` are whether hylarana_create_sender and
\* hylarana_discovery_register gave a handle
CreateHylaranaSender(sok, dok) ==
    /\ hmade + 2 <= MaxHyl
    /\ IF hyl.sender # 0
       THEN /\ hyl' = [ hyl EXCEPT !.ret = "create_sender" ]
            /\ UNCHANGED << hlive, hlost, hmade >>
       ELSE IF ~ sok
       THEN /\ hyl' = [ hyl EXCEPT !.sender = 0, !.ret = "create_sender" ]
            /\ UNCHANGED << hlive, hlost, hmade >>
       ELSE IF ~ dok
       THEN /\ hyl' = [ hyl EXCEPT !.sender = hmade + 1, !.discovery = 0,
                                   !.ret = "create_sender" ]
            /\ hlive' = hlive \cup { hmade + 1 }
            /\ hlost' = hlost \cup Overwritten(hyl.discovery)
            /\ hmade' = hmade + 1
       ELSE /\ hyl' = [ hyl EXCEPT !.sender = hmade + 1, !.discovery = hmade + 2,
                                   !.is_runing = TRUE, !.ret = "create_sender" ]
            /\ hlive' = hlive \cup { hmade + 1, hmade + 2 }
            /\ hlost' = hlost \cup Overwritten(hyl.discovery)
            /\ hmade' = hmade + 2
    /\ UNCHANGED hquery
    /\ HylRest

\* main.cpp:125-140: `ok` is whether hylarana_discovery_query gave a handle
CreateHylaranaReceiver(ok) ==
    /\ hmade + 1 <= MaxHyl
    /\ IF hyl.receiver # 0
       THEN /\ hyl' = [ hyl EXCEPT !.ret = "create_receiver" ]
            /\ UNCHANGED << hlive, hquery, hlost, hmade >>
       ELSE IF ~ ok
       THEN /\ hyl' = [ hyl EXCEPT !.discovery = 0, !.ret = "create_receiver" ]
            /\ hlost' = hlost \cup Overwritten(hyl.discovery)
            /\ UNCHANGED << hlive, hquery, hmade >>
       ELSE /\ hyl' = [ hyl EXCEPT !.discovery = hmade + 1, !.is_runing = TRUE,
                                   !.ret = "create_receiver" ]
            /\ hlive' = hlive \cup { hmade + 1 }
            /\ hquery' = hquery \cup { hmade + 1 }
            /\ hlost' = hlost \cup Overwritten(hyl.discovery)
            /\ hmade' = hmade + 1
    /\ HylRest

\* main.cpp:193-235: the callback of a live query; `found` is addrs_size > 0 and
\* `ok` whether hylarana_create_receiver gave a handle
query_resolve(found, ok) ==
    /\ hquery \cap hlive # {}
    /\ hmade + 1 <= MaxHyl
    /\ IF ~ found
       THEN UNCHANGED << hyl, hlive, hlost, hmade >>
       ELSE /\ hyl' = [ hyl EXCEPT !.receiver = IF ok THEN hmade + 1 ELSE 0 ]
            /\ hlive' = IF ok THEN hlive \cup { hmade + 1 } ELSE hlive
            /\ hlost' = hlost \cup Overwritten(hyl.receiver)
            /\ hmade' = IF ok THEN hmade + 1 ELSE hmade
    /\ UNCHANGED hquery
    /\ HylRest

\* main.cpp:142-170, 187-191: a close callback that a destroy call fires finds
\* _is_runing false and returns
Close ==
    /\ IF ~ hyl.is_runing
       THEN /\ hyl' = [ hyl EXCEPT !.ret = "close" ]
            /\ UNCHANGED hlive
       ELSE /\ hyl' = [ hyl EXCEPT !.is_runing = FALSE, !.discovery = 0, !.sender = 0,
                                   !.receiver = 0, !.ret = "close" ]
            /\ hlive' = hlive \ { hyl.discovery, hyl.sender, hyl.receiver }
    /\ UNCHANGED << hquery, hlost, hmade >>
    /\ HylRest

VencRest == UNCHANGED << captureVars, codecVars, enum_ret, create_in, findVars, bridgeVars,
                         gdiVars, svcVars, msVars, hylVars >>

\* settings->frame_rate of the sessions created
FrameRates == { 1, 25, 30 }

\* libavutil: a * bq / cq, rounded to the nearest integer; a rational is << num, den >>
av_rescale_q(a, bq, cq) ==
    LET b == bq[1] * cq[2]
        c == bq[2] * cq[1]
    IN  (a * b + (c \div 2)) \div c

\* video_encoder.c:28-119: the context's time bases are both 1 / frame_rate
create_video_encoder(rate, ok) ==
    /\ ~ venc.open
    /\ venc' = IF ok THEN [ open |-> TRUE, frame_rate |-> rate, frame_num |-> 0, ret |-> 0 ]
                     ELSE venc
    /\ UNCHANGED offered
    /\ VencRest

MutFrameNumAfter(n, taken) == n + 1

\* video_encoder.c:153-160: frame_num after avcodec_send_frame
FrameNumAfter(n, taken) == IF taken THEN n + 1 ELSE n

\* video_encoder.c:121-163: `ready` is whether the frame could be made writable and
\* the buffer has the size the context needs, `taken` what avcodec_send_frame says
video_encoder_send_frame(ready, taken) ==
    /\ venc.open
    /\ Len(offered) < MaxOffers
    /\ IF ~ ready
       THEN /\ venc' = [ venc EXCEPT !.ret = -1 ]
            /\ UNCHANGED offered
       ELSE LET time_base == << 1, venc.frame_rate >>
                pkt_timebase == << 1, venc.frame_rate >>
                pts == av_rescale_q(venc.frame_num, pkt_timebase, time_base)
            IN  /\ offered' = Append(offered, [ pts |-> pts, taken |-> taken ])
                /\ venc' = [ venc EXCEPT !.frame_num = FrameNumAfter(@, taken),
                                         !.ret = IF taken THEN 0 ELSE -1 ]
    /\ VencRest

\* nothing has been asked of the libraries yet
RetInit ==
    /\ enum_ret = [ type |-> "none", ok |-> FALSE, items |-> << >>, status |-> 0,
                    list |-> << >> ]
    /\ create_in = [ name |-> "none", fail |-> "none" ]

BridgeIdle ==
    /\ src_frame = NoFrame
    /\ nv12 = NoFrame
    /\ back = NoFrame

AuxInit ==
    /\ RetInit
    /\ hw_avail = {}
    /\ find_log = << >>
    /\ BridgeIdle
    /\ GdiInit
    /\ SvcInit
    /\ ExtInit

Init == CaptureInit /\ CodecIdle /\ AuxInit

InitCodec == CaptureInit /\ CodecInit /\ AuxInit

CaptureNext ==
    \/ \E proc \in CaptureProcs : SetOutputCallback(proc)
    \/ \E in \in StartInputs : CaptureStart(in[1], in[2], in[3])
    \/ CaptureStop
    \/ \E n \in 0..MaxDevices, ok \in BOOLEAN : EnumCamera(n, ok)
    \/ \E type \in DeviceTypes, index \in 0..(MaxDevices - 1), fail \in CameraFails :
           SetInput(type, index, fail)
    \/ \E t \in 1..MaxSetInput : FrameLoopCheck(t)
    \/ \E t \in 1..MaxSetInput, outcome \in ReadOutcomes : FrameLoopRead(t, outcome)
    \/ \E t \in 1..MaxSetInput : FrameLoopCall(t)
    \/ \E t \in 1..MaxSetInput, ok \in BOOLEAN : FrameLoopReturn(t, ok)
    \/ RawVideoCheck
    \/ RawVideoCall
    \/ RawVideoReturn

SpecCapture == Init /\ [][CaptureNext]_vars

\* the scheduler runs every frame_loop thread that can take a step
FrameLoopFairness ==
    \A t \in 1..MaxSetInput :
        /\ WF_vars(FrameLoopCheck(t))
        /\ WF_vars(\E outcome \in ReadOutcomes : FrameLoopRead(t, outcome))
        /\ WF_vars(FrameLoopCall(t))
        /\ WF_vars(\E ok \in BOOLEAN : FrameLoopReturn(t, ok))

SpecCaptureFair == Init /\ [][CaptureNext]_vars /\ FrameLoopFairness

\* the camera's frame_loop threads next to the calls that start and stop them
LoopNext ==
    \/ \E proc \in CaptureProcs : SetOutputCallback(proc)
    \/ \E camok \in BOOLEAN : CaptureStart(0, camok, 0)
    \/ CaptureStop
    \/ \E n \in 0..MaxDevices, ok \in BOOLEAN : EnumCamera(n, ok)
    \/ \E index \in 0..(MaxDevices - 1), fail \in CameraFails : SetInput("Video", index, fail)
    \/ \E t \in 1..MaxSetInput : FrameLoopCheck(t)
    \/ \E t \in 1..MaxSetInput, outcome \in ReadOutcomes : FrameLoopRead(t, outcome)
    \/ \E t \in 1..MaxSetInput : FrameLoopCall(t)
    \/ \E t \in 1..MaxSetInput, ok \in BOOLEAN : FrameLoopReturn(t, ok)

SpecLoop == Init /\ [][LoopNext]_vars

SinkNext ==
    \/ \E proc \in Procs : SetOutputCallbackLogged(proc)
    \/ \E in \in StartInputs : CaptureStart(in[1], in[2], in[3])
    \/ CaptureStop
    \/ RawVideoCheck
    \/ RawVideoCall
    \/ RawVideoReturn

SpecSink == Init /\ [][SinkNext]_vars

SpecCodec == InitCodec /\ [][CodecNext]_vars

\* a decoder session whose frames change their size in mid-stream
InitConvert ==
    /\ CaptureInit
    /\ AuxInit
    /\ CodecInit
    /\ direction = "Decode"
    /\ stream = [ i \in 1..MaxAUs |-> 1 ]

ConvertNext ==
    \/ \E name \in DecoderNames \cup AudioDecoderNames,
          fail \in DecoderFails \cup AudioDecoderFails : DecCreate(name, fail)
    \/ \E buf \in { "null", "data" }, len \in 0..MaxChunk : DecSendPacket(buf, len)
    \/ \E c \in 1..MaxChunk, perr \in BOOLEAN, eerr \in BOOLEAN : DecParseStep(c, perr, eerr)
    \/ \E fmt \in AllFormats, allocok \in BOOLEAN, size \in 1..MaxFrameSize :
           DecReadFrame(fmt, allocok, size)
    \/ DecRelease

SpecConvert == InitConvert /\ [][ConvertNext]_vars

\* a host with any set of hardware devices, on which codecs are searched for
InitFind ==
    /\ CaptureInit
    /\ CodecIdle
    /\ RetInit
    /\ hw_avail \in SUBSET HwDeviceTypes
    /\ find_log = << >>
    /\ BridgeIdle
    /\ GdiInit
    /\ SvcInit
    /\ ExtInit

FindNext ==
    \/ FindVideoEncoder
    \/ FindVideoDecoder

SpecFind == InitFind /\ [][FindNext]_vars

\* the calls that change what the compositor's scene shows
SceneNext ==
    \/ \E in \in StartInputs : CaptureStart(in[1], in[2], in[3])
    \/ CaptureStop
    \/ \E n \in 0..MaxDevices, ok \in BOOLEAN : EnumCamera(n, ok)
    \/ \E type \in DeviceTypes, index \in 0..(MaxDevices - 1), fail \in CameraFails :
           SetInput(type, index, fail)

SpecScene == Init /\ [][SceneNext]_vars

\* one decoded frame of every size, row padding and content, converted and read back
InitBridge ==
    /\ CaptureInit
    /\ CodecIdle
    /\ RetInit
    /\ hw_avail = {}
    /\ find_log = << >>
    /\ src_frame \in { PlanarFrame(w, h, pad, seed) :
                          w \in FrameDims, h \in FrameDims,
                          pad \in 0..MaxPad, seed \in 0..MaxSeed }
    /\ nv12 = NoFrame
    /\ back = NoFrame
    /\ GdiInit
    /\ SvcInit
    /\ ExtInit

BridgeNext ==
    \/ BridgeConvert
    \/ BridgeInvert

SpecBridge == InitBridge /\ [][BridgeNext]_vars

\* an encoder session driven through its whole interface
InitEncoder ==
    /\ CaptureInit
    /\ AuxInit
    /\ CodecInit
    /\ direction = "Encode"

EncoderNext ==
    \/ \E name \in EncoderNames, fail \in EncoderFails : EncCreate(name, fail)
    \/ \E hardware \in BOOLEAN, writable \in BOOLEAN : EncCopyFrame(hardware, writable)
    \/ \E ok \in BOOLEAN, out \in { << >> } \cup { << f >> : f \in EngineFlags } :
           EncSendFrame(ok, out)
    \/ EncReadPacket
    \/ EncUnrefPacket
    \/ EncRelease

SpecEncoder == InitEncoder /\ [][EncoderNext]_vars

\* a decoder session fed through a parser that may consume nothing in a pass; the
\* thread inside send_packet keeps running its loop
ParseNext ==
    \/ \E name \in DecoderNames \cup AudioDecoderNames,
          fail \in DecoderFails \cup AudioDecoderFails : DecCreate(name, fail)
    \/ \E buf \in { "null", "data" }, len \in 0..MaxChunk : DecSendPacket(buf, len)
    \/ \E c \in 1..MaxChunk, perr \in BOOLEAN, eerr \in BOOLEAN : DecParseStep(c, perr, eerr)
    \/ DecParseZero

SpecParse == InitConvert /\ [][ParseNext]_vars /\ WF_vars(ParsePass)

\* one GDICapture object used by its owner while its detached workers run
GdiNext ==
    \/ GdiStartCapture
    \/ GdiStopCapture
    \/ GdiDestroy
    \/ \E w \in 1..MaxStarts, seen \in BOOLEAN : WorkerCheck(w, seen)
    \/ \E w \in 1..MaxStarts, ok \in BOOLEAN : WorkerBlit(w, ok)
    \/ \E w \in 1..MaxStarts : WorkerReturn(w)

\* the scheduler runs every worker thread that can take a step
SpecGdi == Init /\ [][GdiNext]_vars /\ \A w \in 1..MaxStarts : WF_vars(WorkerStep(w))

\* a script that lists devices and selects one of the objects it was given
SvcNext ==
    \/ \E kind \in DeviceTypes, size \in 0..MaxItems : GetDevices(kind, size)
    \/ \E object \in objects, ok \in BOOLEAN : SetInputDevice(object, ok)
    \/ StopCapture

SpecSvc == Init /\ [][SvcNext]_vars

\* the desktop example's message loop: create, create, close in any order
MsNext ==
    \/ \E ok \in BOOLEAN : CreateMirrorSender(ok)
    \/ \E ok \in BOOLEAN : CreateMirrorReceiver(ok)
    \/ CloseCall
    \/ CloseEnter
    \/ \E fires \in BOOLEAN : CloseSender(fires)
    \/ CloseSenderDone
    \/ \E fires \in BOOLEAN : CloseReceiver(fires)
    \/ CloseReceiverDone

SpecMs == Init /\ [][MsNext]_vars

\* one encoder session of any frame rate and the frames sent to it
VencNext ==
    \/ \E rate \in FrameRates, ok \in BOOLEAN : create_video_encoder(rate, ok)
    \/ \E ready \in BOOLEAN, taken \in BOOLEAN : video_encoder_send_frame(ready, taken)

SpecVenc == Init /\ [][VencNext]_vars

\* the cpp example's service used in any order, with the discovery's callbacks
HylNext ==
    \/ \E sok \in BOOLEAN, dok \in BOOLEAN : CreateHylaranaSender(sok, dok)
    \/ \E ok \in BOOLEAN : CreateHylaranaReceiver(ok)
    \/ \E found \in BOOLEAN, ok \in BOOLEAN : query_resolve(found, ok)
    \/ Close

SpecHyl == Init /\ [][HylNext]_vars

EnumNext ==
    \/ \E in \in StartInputs : CaptureStart(in[1], in[2], in[3])
    \/ CaptureStop
    \/ \E type \in DeviceTypes, items \in BackendLists(ObsItems \cup CameraItems),
          ok \in BOOLEAN : GetDeviceList(type, items, ok)

SpecEnum == Init /\ [][EnumNext]_vars


\* ------------------------------------------------------------------ claims

\* C1: at every observation point at most one capture backend is active, and between
\* two consecutive set_input calls the sink gets frames from one backend only.
C1_SingleActiveBackend ==
    /\ Cardinality(ActiveBackends) <= 1
    /\ Cardinality(delivered) <= 1

\* C2: the first non-empty read_packet result of an encoder session carries the
\* configuration flag and the codec's parameter data, and every packet of the engine
\* (key-frame or delta) comes after it.
C2_ConfigPacketFirst ==
    enc_out # << >> =>
        /\ enc_out[1].flags = ConfigFlag
        /\ enc_out[1].src = "extradata"
        /\ \A i \in 1..Len(enc_out) : enc_out[i].src = "engine" => i > 1

C2_Witness ==
    /\ Len(enc_out) = 3
    /\ enc_out[2].flags = 1
    /\ enc_out[3].flags = 0

\* C3: a frame that arrives while the dispatcher is busy with another frame is
\* discarded: two producers are never inside the sink callback at the same time.
C3_DropWhenBusy == Cardinality(InSink) <= 1

\* C4: whenever a codec session is destroyed, the references to the device context
\* and to the frame pool are released before the codec handle.
C4_DeviceBeforeHandle ==
    \A i \in 1..Len(rel_log), j \in 1..Len(rel_log) :
        (rel_log[i] = "context" /\ rel_log[j] \in { "hw_device_ctx", "hw_frames_ctx" })
            => j < i

C4_Witness ==
    /\ codec.state = "released"
    /\ codec.name = "d3d11va"
    /\ frames_read >= 1
    /\ \E i \in 1..Len(rel_log) : rel_log[i] = "hw_device_ctx"
    /\ \E i \in 1..Len(rel_log) : rel_log[i] = "hw_frames_ctx"
    /\ \E i \in 1..Len(rel_log) : rel_log[i] = "context"

\* the place of a release call in the order the specification gives
SpecRank(what) ==
    IF what = "hw_frames_ctx" THEN 1
    ELSE IF what = "hw_device_ctx" THEN 2
    ELSE IF what = "context" THEN 3
    ELSE 4

\* the place of a release call in the order of the release functions
CodeRank(what) ==
    IF what = "hw_device_ctx" THEN 1
    ELSE IF what = "hw_frames_ctx" THEN 2
    ELSE IF what = "context" THEN 3
    ELSE IF what \in { "parser", "packet", "out_data", "frame" } THEN 4
    ELSE 5

\* C5, as stated: destruction releases the frame-pool buffers, then the device
\* context, then the codec handle, then the packet and frame staging objects, and
\* no later item before an earlier one.
C5_SpecOrder ==
    \A i \in 1..Len(rel_log), j \in 1..Len(rel_log) :
        i < j => SpecRank(rel_log[i]) <= SpecRank(rel_log[j])

\* C5, amended: destruction releases the device context reference, then the frame
\* pool reference, then the codec handle, then the parser, packet and frame staging
\* objects, then the output struct and the session; no later item before an earlier one.
C5_CodeOrder ==
    \A i \in 1..Len(rel_log), j \in 1..Len(rel_log) :
        i < j => CodeRank(rel_log[i]) <= CodeRank(rel_log[j])

C5_Witness ==
    /\ codec.state = "released"
    /\ rel_log = << "hw_device_ctx", "hw_frames_ctx", "context", "packet", "frame",
                    "output_packet", "session" >>

\* C6: the worker thread of the old backend has exited before the new backend is
\* activated: two capture threads never run at the same time.
C6_OldThreadExitedFirst == Cardinality(LiveThreads) <= 1

\* a step in which send_packet was called with a null or a zero-length buffer
EmptySend ==
    /\ codec_ret'[1] = "send_packet"
    /\ codec_ret'[2] = "null" \/ codec_ret'[3] = FALSE

\* C7: send_packet with a null buffer or a zero-length buffer returns success, calls
\* neither the parser nor the engine and leaves the session as it was, so no frame
\* becomes readable because of it.
C7_EmptySendIsNoOp ==
    [][ EmptySend =>
            /\ codec_ret'[4] = "true"
            /\ UNCHANGED << codec, call, pars, pkt_size, submitted, engine,
                            frames_read, failed, rel_log >> ]_vars

C7_Witness ==
    /\ codec_ret = << "send_packet", "data", FALSE, "true" >>
    /\ submitted = << 1 >>
    /\ engine = << 1 >>

C9_FailureLeavesIdle ==
    (ret[1] = "set_input" /\ ret[2] < 0) =>
        /\ LiveThreads = {}
        /\ \A k \in { "source", "reader", "kind" } : << k, si_n >> \notin mf_live

\* C10: the first set_output_callback returns null and the k-th returns the ctx given
\* to call k-1; the sink given last is the registered one.
C10_ReturnsPreviousCtx ==
    /\ \A k \in 1..Len(cb_log) :
           cb_log[k].ret = IF k = 1 THEN 0 ELSE cb_log[k - 1].ctx
    /\ cb_log # << >> => output_callback.ctx = cb_log[Len(cb_log)].ctx

C10_Witness ==
    /\ Len(cb_log) = 3
    /\ cb_log[1].ctx = 1 /\ cb_log[2].ctx = 2 /\ cb_log[3].ctx = 1
    /\ cb_log[2].ret = 1 /\ cb_log[3].ret = 2

\* C11: replacing the sink is atomic with respect to frame delivery: a capture thread
\* calls the sink with a function and a ctx of one registration, and never through a
\* function pointer that is null at the time of the call.
C11_SinkReplacedAtomically == "null_call" \notin ub

\* C12: enumerating cameras when the platform call succeeds and no camera is attached
\* returns success with an empty list; an error is returned only when the platform
\* call itself fails.
C12_EmptyListIsSuccess ==
    enum_ret.type = "Video" =>
        /\ (enum_ret.ok /\ enum_ret.items = << >>) =>
               (enum_ret.status = 0 /\ enum_ret.list = << >>)
        /\ enum_ret.status # 0 => ~enum_ret.ok

\* an entry of the backend's list that the enumeration leaves out and goes on
Skipped(type, item) ==
    \/ type = "Audio" /\ item = "default"
    \/ type = "Video" /\ item = "nomem"

\* C13, as stated: in every returned list the index of a descriptor is its position
\* in that list, also when entries of the backend's list were skipped.
C13_IndexIsListPosition ==
    \A k \in 1..Len(enum_ret.list) : enum_ret.list[k].index = k - 1

\* C13, amended: the index of a descriptor is the position of its device in the
\* backend's list, the value set_input selects the device by; the indices of a
\* returned list increase strictly, and the index of a descriptor exceeds its
\* position in the returned list by the number of entries skipped before it.
C13_IndexIsBackendPosition ==
    \A k \in 1..Len(enum_ret.list) :
        LET idx == enum_ret.list[k].index IN
        /\ idx \in 0..(Len(enum_ret.items) - 1)
        /\ ~Skipped(enum_ret.type, enum_ret.items[idx + 1])
        /\ k > 1 => enum_ret.list[k - 1].index < idx
        /\ idx - (k - 1) =
               Cardinality({ j \in 1..idx : Skipped(enum_ret.type, enum_ret.items[j]) })

C13_Witness ==
    /\ enum_ret.type = "Audio"
    /\ enum_ret.items = << "default", "dev" >>
    /\ enum_ret.list = << [ type |-> "Audio", index |-> 1 ] >>

\* C14: create_encoder returns HardwareUnavailable when the GPU device or context
\* cannot be set up, and ConfigRejected or OpenFailed when the engine cannot be opened,
\* so that the returned result tells the causes apart.
C14_CreateErrorsDistinct ==
    (direction = "Encode" /\ codec_ret[1] = "create") =>
        /\ create_in.fail = "hw" => codec_ret[2] = "HardwareUnavailable"
        /\ create_in.fail \in { "open", "is_open" } =>
               codec_ret[2] \in { "ConfigRejected", "OpenFailed" }

\* C15: when create_encoder or create_decoder fails at any step it returns null and
\* nothing it acquired is left: the session struct, the output struct, the staging
\* packet and frame, the parser, the codec context and the hardware device and frame
\* contexts have been released.
C15_FailedCreateLeavesNothing ==
    codec.state = "failed" =>
        /\ codec_ret = << "create", "null" >>
        /\ \E i \in 1..Len(rel_log) : rel_log[i] = "session"
        /\ ~codec.context /\ ~codec.hw_device_ctx /\ ~codec.hw_frames_ctx
        /\ ~codec.parser /\ ~codec.packet /\ codec.frame = "null"
        /\ ~codec.output_packet /\ ~codec.output_frame

\* C16: once the conversion buffer of a session has been sized from the first frame,
\* a frame of another size is not converted into it: every frame that read_frame
\* converts and returns has the size the buffer was allocated for.
C16_NoConversionIntoOldBuffer ==
    (direction = "Decode" /\ codec_ret = << "read_frame", "frame" >>
        /\ codec.frame = "yuv420p" /\ codec.out_data = "alloc") =>
            codec.frame_size = codec.out_size

\* C17: a capture thread that stops because a call of its backend failed in mid-stream
\* leads to the sink's close callback being invoked; the thread never ends silently.
C17_FailureReachesClose ==
    \A t \in 1..MaxSetInput :
        (threads[t] = "failed") ~> (\E u \in 1..MaxSetInput : threads[u] = "closing")

\* the entries of a hardware list whose device context can be created on this host
Creatable(codecs) == { i \in 1..Len(codecs) : codecs[i].type \in hw_avail }

\* C18: codec_find_video_encoder and codec_find_video_decoder return the first codec of
\* their hardware list whose device context can be created, and the software default
\* (libx264 / h264) exactly when none of the list can be created.
C18_FirstCreatableOrDefault ==
    \A k \in 1..Len(find_log) :
        LET e == find_log[k]
            list == IF e.kind = "Encoder" THEN VideoEncoders ELSE VideoDecoders
            dflt == IF e.kind = "Encoder" THEN "libx264" ELSE "h264"
            can == Creatable(list)
        IN  /\ can # {} =>
                \E i \in can : /\ e.name = list[i].name
                               /\ \A j \in can : i <= j
            /\ e.name = dflt <=> can = {}

C18_Witness ==
    /\ hw_avail = { "QSV", "CUDA" }
    /\ Len(find_log) = 3
    /\ find_log[1] = [ kind |-> "Decoder", name |-> "h264_qsv" ]
    /\ find_log[2] = [ kind |-> "Encoder", name |-> "h264_qsv" ]

\* C19: a repeated set_input for a camera overwrites the previous device: once the
\* later call has started its capture thread, the earlier call's thread is no longer
\* running (so only the later thread delivers frames) and the earlier call's source
\* and reader are no longer held.
C19_LaterCameraReplacesEarlier ==
    \A a, b \in 1..MaxSetInput :
        (a < b /\ threads[a] # "none" /\ threads[b] # "none") =>
            /\ a \notin LiveThreads
            /\ << "source", a >> \notin mf_live
            /\ << "reader", a >> \notin mf_live

\* a set_input call for `type` returns in this step
SetInputReturns(type) ==
    \E index \in 0..(MaxDevices - 1), fail \in CameraFails : SetInput(type, index, fail)

BothVisible(v) == v.monitor /\ v.window

C21_SinkOnlyWhileCapturing ==
    [][ (InSink' \ InSink # {}) => (obs_up /\ rawcb) ]_vars

\* the pixels of a plane of cols x rows stored with `stride` bytes a row, row by row
Pixels(plane, cols, rows, stride) ==
    [ k \in 0..(cols * rows - 1) |-> plane[(k \div cols) * stride + (k % cols)] ]

\* C22: a planar 4:2:0 frame converted to semi-planar 4:2:0 by read_frame and read back
\* with the reference inverse has the luma plane of the source, pixel for pixel, and
\* chroma planes that differ from the source's by no more than the tolerance (here
\* none: both layouts hold the same chroma samples).
C22_RoundTripKeepsPlanes ==
    back.width > 0 =>
        LET f == src_frame
            hw == HalfOf(f.width)
            hh == HalfOf(f.height)
        IN  /\ back.y = Pixels(f.y, f.width, f.height, f.linesize[1])
            /\ back.u = Pixels(f.u, hw, hh, f.linesize[2])
            /\ back.v = Pixels(f.v, hw, hh, f.linesize[3])

C22_Witness ==
    /\ back.width > 0
    /\ src_frame.width = 4
    /\ src_frame.height = 2
    /\ src_frame.linesize[1] = 5
    /\ back.y[5] # back.y[1]
    /\ back.u[1] # back.v[1]

\* C26: the configuration packet is emitted once per encoder session: no read_packet
\* result after the first carries the configuration flag value, whatever flags the
\* engine puts on its packets.
C26_ConfigFlagOnlyOnFirst ==
    \A k \in 2..Len(enc_out) : enc_out[k].flags # ConfigFlag

\* C23: the packet read_packet returned stays as it is until the next read_packet of
\* the session: a copy_frame or send_frame call leaves the session's output packet
\* (what it points to, its flags) unchanged and its buffer as valid as it was.
C23_PacketKeptAcrossFrameCalls ==
    [][ codec_ret'[1] \in { "copy_frame", "send_frame" } =>
            /\ codec'.out_pkt = codec.out_pkt
            /\ PacketValid(codec') = PacketValid(codec) ]_vars

C23_Witness ==
    /\ codec_ret[1] = "copy_frame"
    /\ codec.out_pkt = [ flags |-> 1, src |-> "engine" ]
    /\ PacketValid(codec)
    /\ codec.frame_data = "pixels"
    /\ engine # << >>

\* C27: copy_frame given a hardware-surface frame copies no pixel data: it puts the
\* frame's handles into the session's frame, and it returns true only when it has
\* done so.
C27_HardwareFrameSubstituted ==
    (codec_ret[1] = "copy_frame" /\ codec_ret[3] /\ codec_ret[2] = "true") =>
        codec_ret[4] = "substituted"

\* C25: a send_packet call with a non-empty buffer returns (with the buffer consumed or
\* with a failure) after finitely many parser calls, whatever each parser call reports
\* as consumed, zero included.
C25_SendPacketReturns == (call.pc = "parse") ~> (call.pc = "idle")

\* C24: once capture_stop has returned, no backend is active and no field of the
\* capture state still refers to something stop released: the scene and the three
\* sources are not dangling, and the camera's device count does not outlive its
\* device array.
C24_StopLeavesNothingBehind ==
    ret[1] = "stop" =>
        /\ ActiveBackends = {}
        /\ "freed" \notin { scene, window_source, monitor_source, audio_source }
        /\ cam.devices # "live" => cam.devices_size = 0
        /\ cam.reader = 0

\* C28: a worker thread that was running when StopCapture was called eventually
\* exits, also when StartCapture is called again on the object before the thread has
\* looked at the stop flag.
C28_StoppedWorkerExits ==
    \A w \in 1..MaxStarts : (w \in stopped) ~> (workers[w].pc = "exit")

\* C29: the buffer the worker handed to the sink callback stays allocated until the
\* callback returns, also when StartCapture or the destructor runs meanwhile.
C29_BufferLivesThroughCallback ==
    \A w \in 1..MaxStarts : workers[w].pc = "sink" => workers[w].buf = gdi.data

\* C30: the device set_input_device hands to the library is the device the passed
\* object was made from: the same place in the list of the same get_devices call,
\* whatever get_devices calls were made in between.
C30_ObjectSelectsItsOwnDevice ==
    applied.device # NoDevice => applied.device = applied.object

\* C31: a Close() call made by the close callback while an outer Close() is
\* destroying the handles returns at once, so no sender or receiver handle is
\* destroyed more than once.
C31_HandleDestroyedAtMostOnce ==
    \A h \in 1..MaxHandles : destroys[h] <= 1

C31_Witness ==
    /\ msvc.nested = 1
    /\ stack = << >>
    /\ msvc.sender = 0
    /\ msvc.receiver = 0
    /\ destroys[1] = 1
    /\ destroys[2] = 1

\* C32: a frame_loop thread that meets a null video callback at its loop check
\* returns; a thread that has returned stays so whatever is registered later, and a
\* camera frame reaches the sink only from a thread that has not returned.
C32_ThreadExitsAndStaysOut ==
    [][ \A t \in 1..MaxSetInput :
            /\ (threads[t] = "check" /\ ~ output_callback.video /\ threads'[t] # "check")
                   => threads'[t] = "done"
            /\ threads[t] = "done" => threads'[t] = "done"
            /\ (threads'[t] = "sink" /\ threads[t] # "sink") => threads[t] = "locked"
      ]_vars

C32_Witness ==
    /\ threads = << "done", "none" >>
    /\ output_callback.video
    /\ cam.is_runing
    /\ cam.reader # 0
    /\ ub = {}

\* C33: the frame_loop thread makes no call on the camera's source reader after
\* stop_camera has released it, however capture_stop and the loop interleave.
C33_NoCallOnReleasedReader == "reader_null" \notin ub

\* C36: a capture_start call made while the engine is initialized returns -1 and
\* changes nothing else, also when the engine is initialized only because an
\* earlier capture_start failed part-way; the engine stops being initialized only by
\* capture_stop.
C36_StartRefusedWhileInitialized ==
    [][ /\ (obs_up /\ ret' # ret /\ ret'[1] = "start") =>
              /\ ret'[2] = -1
              /\ obsVars' = obsVars
              /\ cam' = cam
              /\ mf_live' = mf_live
              /\ threads' = threads
        /\ (obs_up /\ ~ obs_up') => ret'[1] = "stop"
      ]_vars

C36_Witness ==
    /\ ret = << "start", -1 >>
    /\ obs_up
    /\ ~ rawcb
    /\ scene = "live"
    /\ window_source = "null"

\* C37: capture_stop never walks a camera device array that is null or already
\* released, for every order of capture_start, camera enumeration and capture_stop.
C37_StopWalksLiveDevicesOnly == "devices_deref" \notin ub

\* the send_frame calls before the k-th offered frame that the engine took
TakenBefore(k) == Cardinality({ i \in 1..(k - 1) : offered[i].taken })

\* C35: the frame counter goes up by one on a send_frame that succeeds and stays on
\* one that fails, so every pts given to the engine is the number of earlier
\* successful sends, and the pts of the frames the engine took rise strictly.
C35_PtsCountsSuccessfulSends ==
    /\ venc.frame_num = TakenBefore(Len(offered) + 1)
    /\ \A k \in 1..Len(offered) : offered[k].pts = TakenBefore(k)
    /\ \A i, j \in 1..Len(offered) :
           (i < j /\ offered[i].taken /\ offered[j].taken) => offered[i].pts < offered[j].pts

C35_Witness ==
    /\ Len(offered) = 4
    /\ venc.frame_rate = 30
    /\ offered[1].taken
    /\ ~ offered[2].taken
    /\ offered[3].taken
    /\ offered[4].pts = 2
    /\ venc.ret = -1

\* C34: releasing a video decoder frees the conversion buffer exactly when the
\* session allocated one, frees nothing else in its place, and read_frame converts
\* only into a buffer the session allocated.
C34_ConversionBufferFreedExactly ==
    [][ /\ ( /\ codec_ret'[1] = "release"
             /\ direction = "Decode"
             /\ ~ IsAudio(codec)
             /\ codec.state = "live"
             /\ codec'.state = "released" ) =>
              LET freed == \E k \in 1..Len(rel_log') : rel_log'[k] = "out_data"
              IN  /\ freed <=> codec.out_size > 0
                  /\ freed => codec.out_data = "alloc"
        /\ ( /\ codec_ret'[1] = "read_frame"
             /\ frames_read' # frames_read
             /\ codec'.frame = "yuv420p" ) => codec.out_data \in { "null", "alloc" }
      ]_vars

\* C38: when Close() has returned no sender, receiver or discovery handle of the
\* service is live, and no live handle has had its pointer overwritten without
\* being destroyed.
C38_CloseLeavesNoHandle ==
    /\ hyl.ret = "close" => hlive = {}
    /\ hlost = {}

=============================================================================
